---- MODULE Spec2Model ----
(***************************************************************************)
(* A model of NLPStock's news-to-explanation pipeline: the text extractor  *)
(* (data_fetchers/article_extractor.py), the summarization engine          *)
(* (summarization/llm_client.py) and the orchestrator                      *)
(* (summarization/why_it_moves_simple.py).                                 *)
(*                                                                         *)
(* Texts are sequences of tokens.  A token is a maximal run of word        *)
(* characters (\w+), one punctuation character, or a run of white space:   *)
(* " " for a run without a line break and "\n" for a run with one.  The    *)
(* regular expressions and substring tests of the source are evaluated on  *)
(* these tokens.                                                           *)
(***************************************************************************)
EXTENDS Integers, Sequences, FiniteSets, TLC

\* ------------------------------------------------------------------ text

Punct == {"%", "'", "(", ")", ",", "-", ".", ":", "{", "}"}

IsSpace(tok) == tok \in {" ", "\n"}

\* \w+ : a token that is neither white space nor punctuation
IsWord(tok) == ~IsSpace(tok) /\ tok \notin Punct

Min(S) == CHOOSE x \in S : \A y \in S : x <= y

\* F(v), with v evaluated once
Of(v, F(_)) == CHOOSE r \in {F(x) : x \in {v}} : TRUE

\* What \s+ sees: adjacent runs of white space are one run.  The run keeps its
\* first token.
Norm(s) ==
    LET marked == [i \in 1..Len(s) |->
                      IF i > 1 /\ IsSpace(s[i]) /\ IsSpace(s[i - 1]) THEN "" ELSE s[i]]
    IN  SelectSeq(marked, LAMBDA tok : tok # "")

RECURSIVE JoinFrom(_, _, _)
JoinFrom(texts, sep, k) ==
    IF k > Len(texts) THEN << >>
    ELSE IF k = Len(texts) THEN texts[k]
    ELSE texts[k] \o sep \o JoinFrom(texts, sep, k + 1)

\* sep.join(texts)
JoinWith(texts, sep) == Of(texts, LAMBDA t : JoinFrom(t, sep, 1))

\* Python's str.strip() on a line: leading and trailing white space removed.
Strip(s) ==
    LET keep == {i \in 1..Len(s) : ~IsSpace(s[i])}
    IN  IF keep = {} THEN << >>
        ELSE SubSeq(s, Min(keep), CHOOSE i \in keep : \A j \in keep : j <= i)

\* Python's str.split('\n') followed by strip() of every line.
Lines(s) ==
    LET brk == {0, Len(s) + 1} \cup {k \in 1..Len(s) : s[k] = "\n"}
        Cut(breaks) ==
            [k \in 1..(Cardinality(breaks) - 1) |->
                LET b == CHOOSE x \in breaks : Cardinality({c \in breaks : c < x}) = k - 1
                    e == CHOOSE x \in breaks : Cardinality({c \in breaks : c < x}) = k
                IN  Strip(SubSeq(s, b + 1, e - 1))]
    IN  Of(brk, Cut)

\* phrase in text, for a phrase of words separated by single blanks: the
\* first word may end a token and the last may start one.
ContainsPhrase(s, first, middle, last) ==
    \E i \in 1..Len(s) :
        LET n == Len(middle)
            j == i + 2 * (n + 1)
        IN  /\ j <= Len(s)
            /\ s[i] \in first
            /\ \A k \in 1..n : s[i + 2 * k - 1] = " " /\ s[i + 2 * k] = middle[k]
            /\ s[j - 1] = " "
            /\ s[j] \in last

\* "why the stock might be moving" in prompt   (llm_client.py:151, :329)
IsAggregateRequest(prompt) ==
    ContainsPhrase(prompt, {"why"}, <<"the", "stock", "might", "be">>, {"moving"})

\* "might relate to the stock moving" in prompt   (llm_client.py:299, :345)
IsArticleRequest(prompt) ==
    ContainsPhrase(prompt, {"might"}, <<"relate", "to", "the", "stock">>, {"moving"})

\* re.search(r'about\s+(\w+)', prompt): the positions of "about"
AboutWordAt(p) ==
    {i \in 1..Len(p) : /\ i + 2 <= Len(p)
                       /\ p[i] \in {"about"}
                       /\ IsSpace(p[i + 1])
                       /\ IsWord(p[i + 2])}

\* re.search(r'about\s+(\w+)\s+stock', prompt)
AboutWordStockAt(p) ==
    {i \in AboutWordAt(p) : /\ i + 4 <= Len(p)
                            /\ IsSpace(p[i + 3])
                            /\ p[i + 4] \in {"stock", "stocks"}}

\* re.search(r'moving\s+(\w+)', prompt)
MovingWordAt(p) ==
    {i \in 1..Len(p) : /\ i + 2 <= Len(p)
                       /\ p[i] \in {"moving"}
                       /\ IsSpace(p[i + 1])
                       /\ IsWord(p[i + 2])}

\* group(1) of the leftmost match, or the default when there is none
FirstGroup(p, at, default) == IF at = {} THEN default ELSE <<p[Min(at) + 2]>>

\* The literal texts of the source, token by token.

\* why_it_moves_simple.py:27-32, the prompt of summarize_article
ArticlePrompt(symbol, direction, article_text) ==
    <<"\n", "Analyze", " ", "this", " ", "processed", " ", "news", " ", "information", " ",
    "about", " ">> \o symbol \o <<" ", "stock", " ", "and", " ", "explain", " ", "how", " ",
    "it", " ", "might", " ", "relate", " ", "to", " ", "the", " ", "stock", " ", "moving",
    " ">> \o direction \o <<".", "\n", "Focus", " ", "on", " ", "key", " ", "factors", " ",
    "that", " ", "could", " ", "influence", " ", "stock", " ", "price", ".", "\n", "Processed",
    " ", "information", ":", " ">> \o article_text \o <<"\n">>

\* why_it_moves_simple.py:51-55, the prompt of summarize_articles
AggregatePrompt(symbol, joined) ==
    <<"\n", "Based", " ", "on", " ", "these", " ", "news", " ", "summaries", " ", "about",
    " ">> \o symbol \o <<",", " ", "provide", " ", "a", " ", "concise", " ", "explanation",
    " ", "of", " ", "why", " ", "the", " ", "stock", " ", "might", " ", "be", " ", "moving",
    ":", "\n">> \o joined \o <<"\n">>

\* why_it_moves_simple.py:43
NoArticlesToSummarize ==
    <<"No", " ", "valid", " ", "articles", " ", "found", " ", "to", " ", "summarize", ".">>

\* why_it_moves_simple.py:61
UnableToGenerate ==
    <<"Unable", " ", "to", " ", "generate", " ", "summary", " ", "due", " ", "to", " ", "an",
    " ", "error", ".">>

\* why_it_moves_simple.py:90 and :117
NoNewsSummary ==
    <<"There", " ", "are", " ", "no", " ", "news", " ", "currently", " ", "affecting", " ",
    "the", " ", "stock", " ", "price", ",", " ", "fluctuations", " ", "might", " ", "be", " ",
    "due", " ", "to", " ", "market", " ", "conditions", ".">>

\* why_it_moves_simple.py:170
NoValidSummaries ==
    <<"No", " ", "valid", " ", "article", " ", "summaries", " ", "could", " ", "be", " ",
    "generated", ".">>

\* why_it_moves_simple.py:197
ErrorSummary ==
    <<"There", " ", "was", " ", "an", " ", "error", " ", "generating", " ", "the", " ",
    "summary", ".">>

\* why_it_moves_simple.py:218
NoDataSummary(symbol, pct2f) ==
    <<"No", " ", "news", " ", "data", " ", "available", " ", "for", " ">> \o symbol \o <<".",
    " ", "The", " ", "stock", "'", "s", " ", "movement", " ", "of", " ">> \o pct2f \o <<"%",
    " ", "may", " ", "be", " ", "related", " ", "to", " ", "market", " ", "conditions", " ",
    "or", " ", "unreported", " ", "news", ".">>

\* llm_client.py:153
CraftIntro(symbol) ==
    <<"Based", " ", "on", " ", "the", " ", "news", " ", "summaries", ",", " ", "the", " ",
    "stock", " ", "of", " ">> \o symbol \o <<" ", "might", " ", "be", " ", "moving", " ",
    "due", " ", "to", " ", "the", " ", "following", " ", "reasons", ":">>

\* llm_client.py:163
FinancialPerformance(symbol) ==
    <<"Financial", " ", "performance", ":", " ">> \o symbol \o <<" ", "reported", " ",
    "strong", " ", "financial", " ", "results", " ", "that", " ", "exceeded", " ", "market",
    " ", "expectations", ",", " ", "boosting", " ", "investor", " ", "confidence", " ", "in",
    " ", "the", " ", "company", "'", "s", " ", "growth", " ", "trajectory", ".">>

\* llm_client.py:165
FinancialConcerns(symbol) ==
    <<"Financial", " ", "concerns", ":", " ">> \o symbol \o <<" ", "may", " ", "have", " ",
    "reported", " ", "financial", " ", "results", " ", "below", " ", "market", " ",
    "expectations", ",", " ", "raising", " ", "concerns", " ", "about", " ", "growth", " ",
    "prospects", ".">>

\* llm_client.py:167
MixedFinancialSignals(symbol) ==
    <<"Mixed", " ", "financial", " ", "signals", ":", " ">> \o symbol \o <<"'", "s", " ",
    "financial", " ", "performance", " ", "shows", " ", "both", " ", "strengths", " ", "and",
    " ", "challenges", ",", " ", "leading", " ", "to", " ", "a", " ", "balanced", " ",
    "market", " ", "reaction", ".">>

\* llm_client.py:189
TechnologyAdvancements(symbol, product_str) ==
    <<"Technology", " ", "advancements", ":", " ">> \o symbol \o <<"'", "s", " ",
    "developments", " ", "in", " ">> \o product_str \o <<" ", "are", " ", "attracting", " ",
    "investor", " ", "attention", " ", "and", " ", "could", " ", "drive", " ", "future", " ",
    "growth", ",", " ", "affecting", " ", "market", " ", "perception", " ", "of", " ", "the",
    " ", "company", "'", "s", " ", "competitive", " ", "position", ".">>

\* llm_client.py:194
MarketPositioning(symbol) ==
    <<"Market", " ", "positioning", ":", " ", "News", " ", "about", " ">> \o symbol \o <<"'",
    "s", " ", "market", " ", "share", ",", " ", "competitive", " ", "landscape", ",", " ",
    "or", " ", "industry", " ", "trends", " ", "is", " ", "impacting", " ", "how", " ",
    "investors", " ", "view", " ", "the", " ", "company", "'", "s", " ", "future", " ",
    "prospects", ".">>

\* llm_client.py:203
ChinaMarketAccess(symbol) ==
    <<"China", " ", "market", " ", "access", ":", " ">> \o symbol \o <<"'", "s", " ",
    "potential", " ", "improvements", " ", "in", " ", "access", " ", "to", " ", "the", " ",
    "Chinese", " ", "market", " ", "could", " ", "represent", " ", "a", " ", "significant",
    " ", "growth", " ", "opportunity", ",", " ", "as", " ", "China", " ", "is", " ", "one",
    " ", "of", " ", "the", " ", "world", "'", "s", " ", "largest", " ", "economies", ".">>

\* llm_client.py:205
EuropeanOperations(symbol) ==
    <<"European", " ", "operations", ":", " ", "Developments", " ", "in",
    " ">> \o symbol \o <<"'", "s", " ", "European", " ", "business", " ", "could", " ", "be",
    " ", "affecting", " ", "investor", " ", "sentiment", " ", "due", " ", "to", " ", "the",
    " ", "region", "'", "s", " ", "importance", " ", "for", " ", "global", " ", "companies",
    ".">>

\* llm_client.py:207
InternationalDevelopments(symbol) ==
    <<"International", " ", "developments", ":", " ">> \o symbol \o <<"'", "s", " ",
    "interactions", " ", "with", " ", "global", " ", "markets", " ", "or", " ", "regulatory",
    " ", "bodies", " ", "could", " ", "be", " ", "affecting", " ", "investor", " ",
    "sentiment", ",", " ", "particularly", " ", "regarding", " ", "expansion", " ",
    "opportunities", " ", "or", " ", "compliance", " ", "costs", ".">>

\* llm_client.py:212
CloudProfitabilityMilestone(symbol) ==
    <<"Cloud", " ", "profitability", " ", "milestone", ":", " ">> \o symbol \o <<"'", "s", " ",
    "cloud", " ", "division", " ", "reaching", " ", "profitability", " ", "represents", " ",
    "a", " ", "significant", " ", "achievement", " ", "that", " ", "could", " ", "improve",
    " ", "overall", " ", "margins", " ", "and", " ", "validate", " ", "the", " ", "company",
    "'", "s", " ", "long", "-", "term", " ", "investment", " ", "in", " ", "this", " ", "area",
    ".">>

\* llm_client.py:214
CloudBusinessPerformance(symbol) ==
    <<"Cloud", " ", "business", " ", "performance", ":", " ">> \o symbol \o <<"'", "s", " ",
    "cloud", " ", "division", " ", "results", " ", "are", " ", "influencing", " ", "investor",
    " ", "perceptions", " ", "about", " ", "the", " ", "company", "'", "s", " ", "growth", " ",
    "in", " ", "this", " ", "high", "-", "margin", ",", " ", "rapidly", " ", "expanding", " ",
    "market", " ", "segment", ".">>

\* llm_client.py:218
AIEnhancedSearch(symbol) ==
    <<"AI", "-", "enhanced", " ", "search", ":", " ">> \o symbol \o <<"'", "s", " ",
    "integration", " ", "of", " ", "advanced", " ", "AI", " ", "into", " ", "its", " ", "core",
    " ", "search", " ", "business", " ", "could", " ", "strengthen", " ", "its", " ",
    "competitive", " ", "position", " ", "and", " ", "open", " ", "new", " ", "monetization",
    " ", "opportunities", ",", " ", "potentially", " ", "driving", " ", "future", " ",
    "revenue", " ", "growth", ".">>

\* llm_client.py:220
AIStrategy(symbol) ==
    <<"AI", " ", "strategy", ":", " ">> \o symbol \o <<"'", "s", " ", "artificial", " ",
    "intelligence", " ", "initiatives", " ", "are", " ", "being", " ", "evaluated", " ", "by",
    " ", "the", " ", "market", " ", "in", " ", "terms", " ", "of", " ", "their", " ",
    "potential", " ", "to", " ", "drive", " ", "future", " ", "revenue", " ", "growth", " ",
    "and", " ", "maintain", " ", "competitive", " ", "advantages", ".">>

\* llm_client.py:229
ProductAnnouncements(symbol) ==
    <<"Product", " ", "announcements", ":", " ", "Recent", " ", "product", " ", "launches",
    " ", "or", " ", "innovation", " ", "announcements", " ", "from", " ">> \o symbol \o <<" ",
    "have", " ", "received", " ", "positive", " ", "market", " ", "reception", ",", " ",
    "potentially", " ", "driving", " ", "up", " ", "investor", " ", "interest", ".">>

\* llm_client.py:232
StrategicExpansion(symbol) ==
    <<"Strategic", " ", "expansion", ":", " ">> \o symbol \o <<"'", "s", " ", "strategic", " ",
    "acquisitions", " ", "or", " ", "expansion", " ", "plans", " ", "signal", " ", "growth",
    " ", "potential", " ", "and", " ", "could", " ", "be", " ", "contributing", " ", "to", " ",
    "positive", " ", "stock", " ", "movement", ".">>

\* llm_client.py:235
ShareholderReturns ==
    <<"Shareholder", " ", "returns", ":", " ", "Announced", " ", "share", " ", "buybacks", " ",
    "or", " ", "dividend", " ", "increases", " ", "demonstrate", " ", "financial", " ",
    "strength", " ", "and", " ", "commitment", " ", "to", " ", "shareholder", " ", "value",
    ".">>

\* llm_client.py:238
MarketSentiment(symbol) ==
    <<"Market", " ", "sentiment", ":", " ", "A", " ", "decrease", " ", "in", " ", "market",
    " ", "volatility", " ", "and", " ", "an", " ", "optimistic", " ", "sentiment", " ",
    "could", " ", "lead", " ", "to", " ", "increased", " ", "investor", " ", "confidence", " ",
    "and", " ", "a", " ", "boost", " ", "in", " ", "stock", " ", "prices", ",", " ",
    "including", " ">> \o symbol \o <<".">>

\* llm_client.py:241
MonetaryPolicyPositive ==
    <<"Monetary", " ", "policy", ":", " ", "Recent", " ", "signals", " ", "from", " ", "the",
    " ", "Federal", " ", "Reserve", " ", "regarding", " ", "interest", " ", "rates", " ",
    "could", " ", "be", " ", "favorable", " ", "for", " ", "growth", " ", "stocks", ".">>

\* llm_client.py:244
TradeDealHopes(symbol) ==
    <<"Trade", " ", "deal", " ", "hopes", ":", " ", "Potential", " ", "trade", " ",
    "agreements", " ", "could", " ", "reduce", " ", "tariffs", " ", "and", " ", "positively",
    " ", "impact", " ", "the", " ", "global", " ", "economy", ",", " ", "benefiting", " ",
    "companies", " ", "like", " ">> \o symbol \o <<" ", "with", " ", "international", " ",
    "exposure", ".">>

\* llm_client.py:251
CompetitivePressures(symbol) ==
    <<"Competitive", " ", "pressures", ":", " ", "Increasing", " ", "competition", " ", "in",
    " ">> \o symbol \o <<"'", "s", " ", "market", " ", "could", " ", "be", " ", "threatening",
    " ", "its", " ", "market", " ", "share", " ", "and", " ", "future", " ", "revenue", " ",
    "growth", ".">>

\* llm_client.py:254
RegulatoryChallenges(symbol) ==
    <<"Regulatory", " ", "challenges", ":", " ">> \o symbol \o <<" ", "might", " ", "be", " ",
    "facing", " ", "regulatory", " ", "scrutiny", " ", "or", " ", "legal", " ", "challenges",
    " ", "that", " ", "could", " ", "impact", " ", "its", " ", "operations", " ", "or", " ",
    "impose", " ", "financial", " ", "penalties", ".">>

\* llm_client.py:257
MarketVolatility(symbol) ==
    <<"Market", " ", "volatility", ":", " ", "Increased", " ", "market", " ", "uncertainty",
    " ", "and", " ", "risk", " ", "aversion", " ", "could", " ", "be", " ", "driving", " ",
    "investors", " ", "away", " ", "from", " ", "stocks", " ", "like",
    " ">> \o symbol \o <<".">>

\* llm_client.py:260
MonetaryPolicyNegative ==
    <<"Monetary", " ", "policy", ":", " ", "Changes", " ", "in", " ", "interest", " ", "rate",
    " ", "expectations", " ", "could", " ", "be", " ", "pressuring", " ", "growth", " ",
    "stock", " ", "valuations", ".">>

\* llm_client.py:263 (a plain string, not an f-string: the braces are literal)
InflationConcerns ==
    <<"Inflation", " ", "concerns", ":", " ", "Rising", " ", "inflation", " ", "might", 
    " ", "be", " ", "impacting", " ", "{", "symbol", "}", "'", "s", " ", "cost", " ", 
    "structure", " ", "and", " ", "profit", " ", "margins", ".">>

\* llm_client.py:270
SectorRotation(symbol) ==
    <<"Sector", " ", "rotation", ":", " ", "Investors", " ", "might", " ", "be", " ",
    "reallocating", " ", "portfolios", " ", "across", " ", "different", " ", "sectors", ",",
    " ", "affecting", " ">> \o symbol \o <<"'", "s", " ", "stock", " ", "regardless", " ",
    "of", " ", "company", "-", "specific", " ", "news", ".">>

\* llm_client.py:273
LeadershipTransition(symbol) ==
    <<"Leadership", " ", "transition", ":", " ", "Changes", " ", "in",
    " ">> \o symbol \o <<"'", "s", " ", "leadership", " ", "team", " ", "could", " ", "be",
    " ", "creating", " ", "uncertainty", " ", "as", " ", "investors", " ", "wait", " ", "to",
    " ", "assess", " ", "the", " ", "impact", ".">>

\* llm_client.py:275
MarketIndecision(symbol) ==
    <<"Market", " ", "indecision", ":", " ", "Traders", " ", "might", " ", "be", " ",
    "waiting", " ", "for", " ", "additional", " ", "information", " ", "or", " ", "catalysts",
    " ", "before", " ", "making", " ", "significant", " ", "moves", " ", "on",
    " ">> \o symbol \o <<".">>

\* llm_client.py:280
IndustryTrends(symbol) ==
    <<"Industry", " ", "trends", ":", " ", "Broader", " ", "trends", " ", "in",
    " ">> \o symbol \o <<"'", "s", " ", "industry", " ", "could", " ", "be", " ",
    "influencing", " ", "investor", " ", "sentiment", " ", "and", " ", "trading", " ",
    "patterns", ".">>

\* llm_client.py:282
TechnicalFactors ==
    <<"Technical", " ", "factors", ":", " ", "Trading", " ", "patterns", ",", " ", "option",
    " ", "expirations", ",", " ", "or", " ", "index", " ", "rebalancing", " ", "could", " ",
    "be", " ", "contributing", " ", "to", " ", "the", " ", "stock", "'", "s", " ", "movement",
    ".">>

\* llm_client.py:284
InvestorPositioning(symbol) ==
    <<"Investor", " ", "positioning", ":", " ", "Institutional", " ", "investors", " ",
    "might", " ", "be", " ", "adjusting", " ", "their", " ", "positions", " ", "in",
    " ">> \o symbol \o <<" ", "based", " ", "on", " ", "their", " ", "overall", " ",
    "portfolio", " ", "strategy", ".">>

\* llm_client.py:294
CraftConclusion ==
    <<"\n", "Additionally", ",", " ", "the", " ", "stock", " ", "might", " ", "be", " ",
    "influenced", " ", "by", " ", "factors", " ", "such", " ", "as", " ", "market", " ",
    "liquidity", ",", " ", "trading", " ", "algorithms", ",", " ", "and", " ", "general", " ",
    "economic", " ", "conditions", " ", "affecting", " ", "the", " ", "broader", " ", "market",
    ".">>

\* llm_client.py:309
ArticlePositive(symbol, direction, score_f2f) ==
    <<"The", " ", "news", " ", "provides", " ", "highly", " ", "relevant", " ", "information",
    " ", "that", " ", "explains", " ", "why", " ">> \o symbol \o <<" ", "stock", " ", "is",
    " ", "moving", " ">> \o direction \o <<".", " ", "The", " ", "content", " ", "indicates",
    " ", "positive", " ", "developments", " ", "such", " ", "as", " ", "strong", " ",
    "financial", " ", "performance", ",", " ", "strategic", " ", "initiatives", " ", "that",
    " ", "could", " ", "drive", " ", "growth", ",", " ", "and", " ", "favorable", " ",
    "market", " ", "conditions", ".", " ", "These", " ", "factors", " ", "are", " ", "likely",
    " ", "increasing", " ", "investor", " ", "confidence", " ", "in", " ">> \o symbol \o <<"'",
    "s", " ", "business", " ", "outlook", ",", " ", "leading", " ", "to", " ", "increased",
    " ", "buying", " ", "interest", ".", " ", "The", " ", "sentiment", " ", "analysis", " ",
    "indicates", " ", "a", " ", "positive", " ", "outlook", " ", "(", "confidence", ":",
    " ">> \o score_f2f \o <<")", " ", "which", " ", "aligns", " ", "with", " ", "the", " ",
    "stock", "'", "s", " ", "movement", " ", "pattern", ".">>

\* llm_client.py:311
ArticleNegative(symbol, direction, score_f2f) ==
    <<"The", " ", "news", " ", "contains", " ", "information", " ", "that", " ", "directly",
    " ", "relates", " ", "to", " ", "why", " ">> \o symbol \o <<" ", "stock", " ", "is", " ",
    "moving", " ">> \o direction \o <<".", " ", "The", " ", "content", " ", "reveals", " ",
    "challenges", " ", "such", " ", "as", " ", "financial", " ", "underperformance", ",", " ",
    "competitive", " ", "pressures", ",", " ", "or", " ", "other", " ", "business", " ",
    "headwinds", " ", "that", " ", "are", " ", "likely", " ", "affecting", " ", "investor",
    " ", "sentiment", ".", " ", "These", " ", "factors", " ", "appear", " ", "to", " ", "be",
    " ", "reducing", " ", "confidence", " ", "in", " ">> \o symbol \o <<"'", "s", " ", "near",
    "-", "term", " ", "prospects", ",", " ", "potentially", " ", "leading", " ", "to", " ",
    "selling", " ", "pressure", ".", " ", "The", " ", "sentiment", " ", "analysis", " ",
    "indicates", " ", "negative", " ", "concerns", " ", "(", "confidence", ":",
    " ">> \o score_f2f \o <<")", " ", "which", " ", "helps", " ", "explain", " ", "the", " ",
    "stock", "'", "s", " ", "movement", ".">>

\* llm_client.py:313
ArticleNeutral(symbol, direction, score_f2f) ==
    <<"The", " ", "news", " ", "provides", " ", "context", " ", "that", " ", "may", " ",
    "explain", " ", "why", " ">> \o symbol \o <<" ", "stock", " ", "is", " ", "moving",
    " ">> \o direction \o <<".", " ", "The", " ", "content", " ", "presents", " ", "a", " ",
    "mixed", " ", "picture", " ", "with", " ", "both", " ", "positive", " ", "elements", " ",
    "(", "such", " ", "as", " ", "certain", " ", "business", " ", "strengths", " ", "or", " ",
    "opportunities", ")", " ", "and", " ", "challenges", " ", "(", "such", " ", "as", " ",
    "competitive", " ", "or", " ", "economic", " ", "headwinds", ")", ".", " ", "This", " ",
    "balanced", " ", "perspective", " ", "suggests", " ", "that", " ", "investors", " ", "are",
    " ", "weighing", " ", "multiple", " ", "factors", " ", "when", " ", "trading",
    " ">> \o symbol \o <<" ", "shares", ".", " ", "The", " ", "sentiment", " ", "analysis",
    " ", "shows", " ", "a", " ", "neutral", " ", "assessment", " ", "(", "confidence", ":",
    " ">> \o score_f2f \o <<")", ",", " ", "indicating", " ", "that", " ", "the", " ", "stock",
    " ", "movement", " ", "may", " ", "be", " ", "driven", " ", "by", " ", "additional", " ",
    "factors", " ", "beyond", " ", "this", " ", "specific", " ", "news", ".">>

\* llm_client.py:318
GenericPositive ==
    <<"Analysis", " ", "indicates", " ", "a", " ", "favorable", " ", "outlook", " ", "for",
    " ", "the", " ", "financial", " ", "performance", " ", "and", " ", "market", " ",
    "position", " ", "based", " ", "on", " ", "the", " ", "provided", " ", "information", ".",
    " ", "Key", " ", "positive", " ", "factors", " ", "identified", " ", "include", " ",
    "potential", " ", "revenue", " ", "growth", " ", "opportunities", ",", " ", "strong", " ",
    "competitive", " ", "positioning", ",", " ", "and", " ", "favorable", " ", "market", " ",
    "conditions", " ", "that", " ", "could", " ", "support", " ", "future", " ", "value", " ",
    "creation", ".">>

\* llm_client.py:320
GenericNegative ==
    <<"Analysis", " ", "suggests", " ", "potential", " ", "concerns", " ", "regarding", " ",
    "financial", " ", "performance", " ", "and", " ", "market", " ", "challenges", " ",
    "based", " ", "on", " ", "the", " ", "provided", " ", "information", ".", " ", "Key", " ",
    "risk", " ", "factors", " ", "identified", " ", "include", " ", "possible", " ", "revenue",
    " ", "pressures", ",", " ", "competitive", " ", "threats", ",", " ", "and", " ", "market",
    " ", "headwinds", " ", "that", " ", "could", " ", "impact", " ", "business", " ",
    "prospects", " ", "and", " ", "valuation", ".">>

\* llm_client.py:322
GenericNeutral ==
    <<"Analysis", " ", "presents", " ", "a", " ", "balanced", " ", "perspective", " ", "on",
    " ", "financial", " ", "performance", " ", "and", " ", "market", " ", "position", " ",
    "based", " ", "on", " ", "the", " ", "provided", " ", "information", ".", " ", "Both", " ",
    "positive", " ", "factors", " ", "(", "including", " ", "potential", " ", "growth", " ",
    "opportunities", " ", "and", " ", "strengths", ")", " ", "and", " ", "challenges", " ",
    "(", "including", " ", "competitive", " ", "and", " ", "market", " ", "pressures", ")",
    " ", "have", " ", "been", " ", "identified", ",", " ", "suggesting", " ", "a", " ",
    "complex", " ", "outlook", " ", "with", " ", "multiple", " ", "influencing", " ",
    "variables", ".">>

\* llm_client.py:335
FallbackAggregate(symbol) ==
    <<"Based", " ", "on", " ", "the", " ", "news", " ", "summaries", ",", " ", "the", " ",
    "stock", " ", "of", " ">> \o symbol \o <<" ", "might", " ", "be", " ", "moving", " ",
    "due", " ", "to", " ", "the", " ", "following", " ", "reasons", ":", "\n", "1", ".", " ",
    "Market", " ", "sentiment", ":", " ", "Changes", " ", "in", " ", "overall", " ", "market",
    " ", "sentiment", " ", "and", " ", "volatility", " ", "could", " ", "be", " ", "affecting",
    " ", "investor", " ", "behavior", " ", "toward", " ">> \o symbol \o <<".", "\n", "2", ".",
    " ", "Sector", " ", "trends", ":", " ", "Industry", "-", "specific", " ", "developments",
    " ", "might", " ", "be", " ", "causing", " ", "investors", " ", "to", " ", "reassess", " ",
    "companies", " ", "in", " ", "this", " ", "sector", ".", "\n", "3", ".", " ", "Company",
    " ", "announcements", ":", " ", "Recent", " ", "press", " ", "releases", ",", " ",
    "financial", " ", "reports", ",", " ", "or", " ", "product", " ", "announcements", " ",
    "from", " ">> \o symbol \o <<" ", "could", " ", "be", " ", "driving", " ", "trading", " ",
    "activity", ".", "\n", "4", ".", " ", "Analyst", " ", "actions", ":", " ", "Changes", " ",
    "in", " ", "analyst", " ", "recommendations", ",", " ", "target", " ", "prices", ",", " ",
    "or", " ", "earnings", " ", "estimates", " ", "may", " ", "be", " ", "influencing", " ",
    "investor", " ", "decisions", ".", "\n", "Additionally", ",", " ", "the", " ", "stock",
    " ", "might", " ", "be", " ", "influenced", " ", "by", " ", "factors", " ", "such", " ",
    "as", " ", "macroeconomic", " ", "data", ",", " ", "trading", " ", "algorithms", ",", " ",
    "and", " ", "general", " ", "market", " ", "conditions", ".">>

\* llm_client.py:354
FallbackArticle(symbol, direction) ==
    <<"The", " ", "news", " ", "provides", " ", "relevant", " ", "information", " ", "about",
    " ">> \o symbol \o <<"'", "s", " ", "business", " ", "operations", ",", " ", "market", " ",
    "positioning", ",", " ", "and", " ", "potential", " ", "catalysts", " ", "that", " ",
    "could", " ", "explain", " ", "why", " ", "the", " ", "stock", " ", "is", " ", "moving",
    " ">> \o direction \o <<".", " ", "Key", " ", "factors", " ", "include", " ", "industry",
    " ", "trends", ",", " ", "financial", " ", "performance", ",", " ", "and", " ", "investor",
    " ", "sentiment", ".">>

\* llm_client.py:357
FallbackGeneric ==
    <<"The", " ", "information", " ", "provided", " ", "suggests", " ", "potential", " ",
    "implications", " ", "for", " ", "financial", " ", "markets", " ", "and", " ", "stock",
    " ", "performance", ",", " ", "with", " ", "several", " ", "factors", " ", "that", " ",
    "could", " ", "influence", " ", "investor", " ", "decisions", " ", "and", " ", "market",
    " ", "movements", ".">>

\* The vocabulary terms that are substrings of a token (lower-cased), for
\* every token of the modelled texts that holds one.
TermTable ==
    ("AI" :> {"ai"})
    @@ ("Announced" :> {"announced"})
    @@ ("China" :> {"china"})
    @@ ("Cloud" :> {"cloud"})
    @@ ("European" :> {"europe"})
    @@ ("Industry" :> {"industry"})
    @@ ("Inflation" :> {"inflation"})
    @@ ("International" :> {"international"})
    @@ ("Leadership" :> {"leadership"})
    @@ ("Market" :> {"market"})
    @@ ("News" :> {"new"})
    @@ ("Product" :> {"product"})
    @@ ("Profit" :> {"profit"})
    @@ ("Regulatory" :> {"regulatory"})
    @@ ("Sector" :> {"sector"})
    @@ ("Shareholder" :> {"share"})
    @@ ("Shares" :> {"share"})
    @@ ("Technology" :> {"technology"})
    @@ ("Trade" :> {"trade"})
    @@ ("Traders" :> {"trade"})
    @@ ("acquisitions" :> {"acquisition"})
    @@ ("available" :> {"ai"})
    @@ ("buybacks" :> {"buyback"})
    @@ ("certain" :> {"ai"})
    @@ ("cloud" :> {"cloud"})
    @@ ("competition" :> {"competition"})
    @@ ("contains" :> {"ai"})
    @@ ("dividend" :> {"dividend"})
    @@ ("earnings" :> {"earnings"})
    @@ ("expansion" :> {"expansion"})
    @@ ("explain" :> {"ai"})
    @@ ("explains" :> {"ai"})
    @@ ("global" :> {"global"})
    @@ ("growth" :> {"growth"})
    @@ ("industry" :> {"industry"})
    @@ ("inflation" :> {"inflation"})
    @@ ("innovation" :> {"innovation"})
    @@ ("international" :> {"international"})
    @@ ("launches" :> {"launch"})
    @@ ("leadership" :> {"leadership"})
    @@ ("maintain" :> {"ai"})
    @@ ("market" :> {"market"})
    @@ ("markets" :> {"market"})
    @@ ("new" :> {"new"})
    @@ ("news" :> {"new"})
    @@ ("position" :> {"position"})
    @@ ("positioning" :> {"position"})
    @@ ("positions" :> {"position"})
    @@ ("product" :> {"product"})
    @@ ("products" :> {"product"})
    @@ ("profit" :> {"profit"})
    @@ ("profitability" :> {"profit"})
    @@ ("raising" :> {"ai"})
    @@ ("regulatory" :> {"regulatory"})
    @@ ("releases" :> {"release"})
    @@ ("revenue" :> {"revenue"})
    @@ ("search" :> {"search"})
    @@ ("sector" :> {"sector"})
    @@ ("sectors" :> {"sector"})
    @@ ("share" :> {"share"})
    @@ ("shareholder" :> {"share"})
    @@ ("shares" :> {"share"})
    @@ ("technology" :> {"technology"})
    @@ ("trade" :> {"trade"})
    @@ ("uncertainty" :> {"ai"})
    @@ ("wait" :> {"ai"})
    @@ ("waiting" :> {"ai"})

TermsIn(tok) == IF tok \in DOMAIN TermTable THEN TermTable[tok] ELSE {}

\* ------------------------------------------------ summarization/llm_client.py

\* The terms of a text: every vocabulary term that is a substring of one of
\* its tokens, lower-cased.
TermsOf(s) == UNION {TermsIn(s[i]) : i \in 1..Len(s)}

PhraseArtificialIntelligence(s) == ContainsPhrase(s, {"artificial"}, << >>, {"intelligence"})
PhraseInterestRate(s) == ContainsPhrase(s, {"interest"}, << >>, {"rate", "rates"})
PhraseFederalReserve(s) == ContainsPhrase(s, {"Federal"}, << >>, {"Reserve"})

StartsWithBullet(line) ==
    \/ line[1] = "-"
    \/ Len(line) >= 2 /\ line[1] \in {"1", "2", "3", "4", "5"} /\ line[2] = "."

\* _extract_key_info, lines 79-94: every stripped, non-empty line that is not
\* the entire prompt (or that starts with a bullet or a number).
NewsPoints(prompt) ==
    SelectSeq(Lines(prompt),
              LAMBDA line : line # << >> /\ (line # prompt \/ StartsWithBullet(line)))

\* _extract_key_info, line 117
FullText(prompt) == prompt \o <<" ">> \o JoinWith(NewsPoints(prompt), <<" ">>)

\* _extract_key_info, lines 96-129: the topics found in the prompt.  Only
\* the topics _craft_response asks about are kept.  Every news point is a
\* part of the prompt, so the terms of the full text are the prompt's.
KeywordsOf(t, interest_rate, federal_reserve, artificial_intelligence) ==
    (t \cap {"earnings", "revenue", "profit", "product", "launch", "innovation",
             "acquisition", "merger", "expansion", "buyback", "dividend", "trade",
             "competition", "regulatory", "investigation", "lawsuit", "inflation",
             "leadership", "executive", "market", "sector", "industry"})
    \cup (IF "ceo" \in t THEN {"CEO"} ELSE {})
    \cup (IF interest_rate THEN {"interest rate"} ELSE {})
    \cup (IF federal_reserve THEN {"federal reserve"} ELSE {})
    \cup (IF "ai" \in t \/ "ml" \in t \/ artificial_intelligence THEN {"AI"} ELSE {})
    \cup (IF t \cap {"cloud", "aws", "azure", "gcp", "hosting", "saas"} # {}
          THEN {"cloud"} ELSE {})

Keywords(prompt) ==
    Of(FullText(prompt),
       LAMBDA full : Of(TermsOf(prompt),
                        LAMBDA t : KeywordsOf(t, PhraseInterestRate(full),
                                              PhraseFederalReserve(full),
                                              PhraseArtificialIntelligence(full))))

\* _extract_key_info, lines 76-77
KeyInfoSymbol(prompt) ==
    Of(Norm(prompt), LAMBDA p : FirstGroup(p, AboutWordAt(p), << >>))

Exists(points, P(_)) == \E i \in 1..Len(points) : P(points[i])

PointHasAI(pt) == "ai" \in TermsOf(pt) \/ PhraseArtificialIntelligence(pt)

\* What the tests of _craft_response read of one news point: its terms, and
\* "AI" when it mentions AI in either spelling.
PointTerms(pt) == TermsOf(pt) \cup (IF PointHasAI(pt) THEN {"AI"} ELSE {})

PointsWith(points, terms) == SelectSeq(points, LAMBDA pt : pt \cap terms # {})

\* lines 172-179: the set of products the product news mentions
RelevantProducts(product_news) ==
    (IF Exists(product_news, LAMBDA pt : "AI" \in pt) THEN {"AI"} ELSE {})
    \cup (IF Exists(product_news, LAMBDA pt : "cloud" \in pt) THEN {"cloud"} ELSE {})
    \cup (IF Exists(product_news, LAMBDA pt : pt \cap {"product", "launch"} # {})
          THEN {"new"} ELSE {})

ProductName(r) ==
    CASE r = "AI" -> <<"AI", " ", "technology">>
      [] r = "cloud" -> <<"cloud", " ", "services">>
      [] r = "new" -> <<"new", " ", "products">>

\* The orders list(set) can give three strings; which one a process gets
\* depends on its string hash seed.
ProductOrders == {<<"AI", "cloud", "new">>, <<"AI", "new", "cloud">>, <<"cloud", "AI", "new">>,
                  <<"cloud", "new", "AI">>, <<"new", "AI", "cloud">>, <<"new", "cloud", "AI">>}

\* lines 182-187
ProductStr(products, order) ==
    LET lst == SelectSeq(order, LAMBDA r : r \in products)
        names == [i \in 1..Len(lst) |-> ProductName(lst[i])]
    IN  IF Len(lst) > 1
        THEN JoinWith(SubSeq(names, 1, Len(lst) - 1), <<",", " ">>)
             \o <<" ", "and", " ">> \o names[Len(lst)]
        ELSE names[1]

If(c, x) == IF c THEN <<x>> ELSE << >>

\* _craft_response, lines 158-220: the factors read off the news points
PointFactorsOf(symbol, label, keywords, points, order) ==
    LET earnings_news == PointsWith(points, {"earnings", "revenue", "profit", "growth",
                                             "financials", "income", "sales"})
        product_news == PointsWith(points, {"product", "launch", "technology", "announced",
                                            "release", "update", "new", "innovation", "ai",
                                            "cloud"})
        market_news == PointsWith(points, {"market", "sector", "industry", "competition",
                                           "competitor", "share", "position"})
        global_news == PointsWith(points, {"global", "international", "china", "europe",
                                           "regulatory", "regulation", "government",
                                           "authority", "approval", "reject"})
        products == RelevantProducts(product_news)
        has(term) == Exists(points, LAMBDA pt : term \in pt)
    IN  If(Len(earnings_news) > 0 /\ keywords \cap {"earnings", "revenue", "profit"} # {},
           CASE label = "positive" -> FinancialPerformance(symbol)
             [] label = "negative" -> FinancialConcerns(symbol)
             [] OTHER -> MixedFinancialSignals(symbol))
        \o If(Len(product_news) > 0 /\ products # {},
              TechnologyAdvancements(symbol, ProductStr(products, order)))
        \o If(Len(market_news) > 0, MarketPositioning(symbol))
        \o If(Len(global_news) > 0,
              IF Exists(global_news, LAMBDA pt : "china" \in pt)
              THEN ChinaMarketAccess(symbol)
              ELSE IF Exists(global_news, LAMBDA pt : "europe" \in pt)
                   THEN EuropeanOperations(symbol)
                   ELSE InternationalDevelopments(symbol))
        \o If(has("cloud") /\ "cloud" \in keywords,
              IF has("profit") THEN CloudProfitabilityMilestone(symbol)
              ELSE CloudBusinessPerformance(symbol))
        \o If(has("AI") /\ "AI" \in keywords,
              IF has("search") THEN AIEnhancedSearch(symbol) ELSE AIStrategy(symbol))

PointFactors(symbol, label, keywords, news_points, order) ==
    Of([i \in 1..Len(news_points) |-> PointTerms(news_points[i])],
       LAMBDA points : PointFactorsOf(symbol, label, keywords, points, order))

\* _craft_response, lines 223-275: the factors the sentiment adds
SentimentFactors(symbol, label, keywords) ==
    LET kw(K) == keywords \cap K # {}
    IN  CASE label = "positive" ->
               If(kw({"earnings", "revenue", "profit"}), FinancialPerformance(symbol))
               \o If(kw({"product", "launch", "innovation"}), ProductAnnouncements(symbol))
               \o If(kw({"acquisition", "merger", "expansion"}), StrategicExpansion(symbol))
               \o If(kw({"buyback", "dividend"}), ShareholderReturns)
               \o <<MarketSentiment(symbol)>>
               \o If(kw({"interest rate", "federal reserve"}), MonetaryPolicyPositive)
               \o If(kw({"trade"}), TradeDealHopes(symbol))
          [] label = "negative" ->
               If(kw({"earnings", "revenue", "profit"}), FinancialConcerns(symbol))
               \o If(kw({"competition"}), CompetitivePressures(symbol))
               \o If(kw({"regulatory", "investigation", "lawsuit"}), RegulatoryChallenges(symbol))
               \o <<MarketVolatility(symbol)>>
               \o If(kw({"interest rate", "federal reserve"}), MonetaryPolicyNegative)
               \o If(kw({"inflation"}), InflationConcerns)
          [] OTHER ->
               If(kw({"earnings", "revenue"}), MixedFinancialSignals(symbol))
               \o <<SectorRotation(symbol)>>
               \o If(kw({"leadership", "CEO", "executive"}), LeadershipTransition(symbol))
               \o <<MarketIndecision(symbol)>>

\* _craft_response, lines 278-284
GenericFactors(symbol, keywords) ==
    If(keywords \cap {"market", "sector", "industry"} # {}, IndustryTrends(symbol))
    \o <<TechnicalFactors, InvestorPositioning(symbol)>>

\* lines 223 and 278: more factors are added to fewer than three
Extended(factors, more) == IF Len(factors) < 3 THEN factors \o more ELSE factors

\* line 287
FirstFive(factors) == SubSeq(factors, 1, IF Len(factors) < 5 THEN Len(factors) ELSE 5)

FactorsOf(symbol, keywords, points, label, order) ==
    Of(IF Len(points) > 0 THEN PointFactors(symbol, label, keywords, points, order)
       ELSE << >>,
       LAMBDA f1 : Of(Extended(f1, SentimentFactors(symbol, label, keywords)),
                      LAMBDA f2 : Of(Extended(f2, GenericFactors(symbol, keywords)),
                                     FirstFive)))

\* The symbol _craft_response names (lines 141, 153)
CraftSymbol(prompt) ==
    Of(KeyInfoSymbol(prompt),
       LAMBDA sym : IF sym = << >> THEN <<"the", " ", "company">> ELSE sym)

\* _craft_response, lines 155-287: the factor list, cut to five
Factors(prompt, label, order) ==
    Of(CraftSymbol(prompt),
       LAMBDA symbol :
          Of(Keywords(prompt),
             LAMBDA keywords :
                Of(NewsPoints(prompt),
                   LAMBDA points : FactorsOf(symbol, keywords, points, label, order))))

\* score formatted with :.2f, for a score given in hundredths
Fmt2(h) ==
    <<ToString(h \div 100), ".">>
    \o <<(IF h % 100 < 10 THEN "0" ELSE "") \o ToString(h % 100)>>

\* _craft_response, lines 137-322
CraftResponse(prompt, label, score, order) ==
    IF IsAggregateRequest(prompt)
    THEN Of(Factors(prompt, label, order),
            LAMBDA factors :
               CraftIntro(CraftSymbol(prompt)) \o <<"\n">>
               \o JoinWith([k \in 1..Len(factors) |-> <<ToString(k), ".", " ">> \o factors[k]],
                           <<"\n">>)
               \o CraftConclusion)
    ELSE IF IsArticleRequest(prompt)
    THEN Of(Norm(prompt),
            LAMBDA p :
               LET symbol == FirstGroup(p, AboutWordStockAt(p), <<"this", " ", "company">>)
                   direction == FirstGroup(p, MovingWordAt(p),
                                           <<"in", " ", "its", " ", "current", " ",
                                             "direction">>)
               IN  CASE label = "positive" -> ArticlePositive(symbol, direction, Fmt2(score))
                     [] label = "negative" -> ArticleNegative(symbol, direction, Fmt2(score))
                     [] OTHER -> ArticleNeutral(symbol, direction, Fmt2(score)))
    ELSE CASE label = "positive" -> GenericPositive
           [] label = "negative" -> GenericNegative
           [] OTHER -> GenericNeutral

\* _generate_fallback, lines 324-357
GenerateFallbackOf(prompt, p) ==
    IF IsAggregateRequest(prompt)
    THEN FallbackAggregate(FirstGroup(p, AboutWordAt(p), <<"the", " ", "company">>))
    ELSE IF IsArticleRequest(prompt)
    THEN FallbackArticle(
             FirstGroup(p, AboutWordStockAt(p), <<"this", " ", "company">>),
             FirstGroup(p, MovingWordAt(p),
                        <<"in", " ", "its", " ", "current", " ", "direction">>))
    ELSE FallbackGeneric

GenerateFallback(prompt) == Of(Norm(prompt), LAMBDA p : GenerateFallbackOf(prompt, p))

\* ------------------------------------------------------------ more texts

\* article_extractor.py:33, the NOT_FOUND sentinel
NOT_FOUND == <<"Full", " ", "article", " ", "text", " ", "not", " ", "found", ".">>

\* why_it_moves_simple.py:47
NoValidToCombine ==
    <<"No", " ", "valid", " ", "summaries", " ", "to", " ", "combine", ".">>

\* nlp_processor.py:42-43
CondensedText(title, key_sentences) ==
    <<"Title", ":", " ">> \o title \o <<"\n">>
    \o <<"Key", " ", "information", ":", " ">> \o key_sentences \o <<"\n">>

\* A variant of Fmt2f that drops the decimals ({p:.0f}).
Fmt0f(p) == (IF p < 0 THEN <<"-">> ELSE << >>) \o <<ToString((IF p < 0 THEN 0 - p ELSE p) \div 1000)>>

\* {p:.2f} for a number given in thousandths (no modelled number is a tie)
Fmt2f(p) ==
    LET a == IF p < 0 THEN 0 - p ELSE p
        h == (a + 5) \div 10
    IN  (IF p < 0 THEN <<"-">> ELSE << >>) \o Fmt2(h)

\* ------------------------------------------------------------ the state

VARIABLES
    \* the environment
    stubbed,        \* the extractor, the NLP libraries and the backend are deterministic stubs
    stub,           \* what the stubs answer
    order,          \* the order list(set) gives this process (its string hash seed)
    \* the call and the files of STOCK_DB
    args,           \* symbol, exchange, daily_change_percentage of the calls
    news,           \* STOCK_DB/news/{symbol}_news.json
    movers,         \* STOCK_DB/movers/{symbol}_summary.json: << >> or <<summary>>
    nlp_data,       \* STOCK_DB/nlp_data/{symbol}_nlp_data.json: << >> or <<list>>
    \* why_it_moves / process_company_data
    pc,             \* where the run is
    runs,           \* calls of why_it_moves so far; the clock of date_generated
    news_articles,  \* the loaded articles
    i,              \* the article the loop of lines 95-107 is at
    articles_with_text,
    processed_articles,
    j,              \* the processed article the loop of lines 133-160 is at
    processed_data,
    summaries,
    result,         \* << >> or <<the MoverSummary returned by the last call>>
    prev,           \* the same, of the call before
    effects,        \* what the run has done outside its own memory
    \* summarize_article / summarize_articles / LLMClient
    req,            \* the arguments of the summarization call
    gpc,            \* where the summarization call is
    prompt,
    use_fallback,
    attempt,        \* backend invocations of this generate call
    sleeps,         \* the time.sleep arguments of this generate call
    response,       \* << >> (None) or <<text>>
    via,            \* how the response was made
    scores,         \* << >> or <<what the backend answered to the successful attempt>>
    clients,        \* LLMClient objects built in this run
    auth_failed,    \* the backend has failed with an authentication error in this run
    \* extract_article_text
    article_url,
    xpc,
    responses,      \* what the HTTP layer answered to each request of this call
    extracted,      \* << >> or <<the returned string>>
    found,          \* where in the page the text was found
    \* fetch_all_news_for_symbol
    rpc,            \* where the call is
    called,         \* the fetchers called by this call, in order
    routed,         \* the list the call builds and returns
    routes,         \* calls of fetch_all_news_for_symbol so far
    \* process_all_stocks
    bpc,            \* where the batch is
    news_files,     \* the cache files the batch found: symbol and content
    batch_at,       \* the file the loop of line 250 is at
    attempted,      \* the symbols why_it_moves was called for, and how the call ended
    \* why_it_moves runs of several threads
    cruns,          \* for each thread, its call and what it holds
    cfiles,         \* STOCK_DB: for each kind of file and symbol, << >> or <<content>>
    clog,           \* for each thread, the files it has read and written
    clock,          \* the time, as date_generated sees it
    \* single calls of the other functions
    fpc,            \* "none", "ready" or "applied"
    fn_in,          \* the arguments of the call and what it finds
    fn_out          \* what the call returns

envVars == <<stubbed, stub, order>>
fileVars == <<news, movers, nlp_data>>
runVars == <<pc, runs, news_articles, i, articles_with_text, processed_articles, j,
             processed_data, summaries, result, prev, effects>>
genVars == <<req, gpc, prompt, use_fallback, attempt, sleeps, response, via, scores,
             clients, auth_failed>>
extVars == <<article_url, xpc, responses, extracted, found>>
routeVars == <<rpc, called, routed, routes>>
batchVars == <<bpc, news_files, batch_at, attempted>>
concVars == <<cruns, cfiles, clog, clock>>
pureVars == <<fpc, fn_in, fn_out>>
modeVars == <<routeVars, batchVars, concVars, pureVars>>
vars == <<envVars, args, fileVars, runVars, genVars, extVars, modeVars>>

\* ------------------------------------------------------------ bounds

MaxRuns == 2
MaxArticles == 2

\* ------------------------------------------------------------ inputs

Symbols == {<<"ACME">>, <<"BRK", ".", "B">>}
\* daily_change_percentage, in thousandths of a percent
Percentages == {1500, 0 - 2346}

ArticleTitle == <<"Profit", " ", "rose">>
ArticleText == <<"Profit", " ", "rose", ".">>

\* What extract_article_text can return: text, the sentinel, or the empty
\* string (article_extractor.py:68, :75).
ExtractResults == {ArticleText, NOT_FOUND, << >>}

Labels == {"positive", "negative", "neutral"}
\* the score of the winning label, in hundredths
Scores == {90}
ErrorClasses == {"auth", "transient"}

\* One entry of the cache file.  A dict entry has or lacks the field
\* full_article_text and a non-empty url; another JSON value is no dict.
Entry(is_dict, has_text, text, has_url) ==
    [is_dict |-> is_dict, has_text |-> has_text, text |-> text, has_url |-> has_url,
     title |-> ArticleTitle]

Entries ==
    {Entry(TRUE, TRUE, ArticleText, TRUE),      \* text stored in the cache
     Entry(TRUE, TRUE, NOT_FOUND, TRUE),        \* the sentinel stored in the cache
     Entry(TRUE, FALSE, << >>, TRUE),           \* a url, no text yet
     Entry(TRUE, FALSE, << >>, FALSE),          \* neither
     Entry(FALSE, FALSE, << >>, FALSE)}         \* null

RECURSIVE SeqsUpTo(_, _)
SeqsUpTo(S, n) ==
    IF n = 0 THEN {<< >>}
    ELSE LET shorter == SeqsUpTo(S, n - 1)
         IN  shorter \cup {Append(s, x) : s \in shorter, x \in S}

\* The states of the cache file: missing, not JSON, or a list of entries.
Caches ==
    {[exists |-> FALSE, valid |-> FALSE, entries |-> << >>],
     [exists |-> TRUE, valid |-> FALSE, entries |-> << >>]}
    \cup {[exists |-> TRUE, valid |-> TRUE, entries |-> es] : es \in SeqsUpTo(Entries, MaxArticles)}

Stubs ==
    {[extract |-> x, nlp_ok |-> n, init_ok |-> TRUE, backend |-> b] :
        x \in ExtractResults, n \in BOOLEAN, b \in Labels \cup ErrorClasses}
    \cup {[extract |-> x, nlp_ok |-> TRUE, init_ok |-> FALSE, backend |-> "transient"] :
            x \in ExtractResults}
NoStub == [extract |-> << >>, nlp_ok |-> TRUE, init_ok |-> TRUE, backend |-> "transient"]

HashOrders == {<<"AI", "cloud", "new">>, <<"new", "cloud", "AI">>}

\* --------------------------- summarize_article, summarize_articles, LLMClient

\* llm_client.py:40, the defaults of generate
max_retries == 3
retry_delay == 2

\* A variant of SleepTime without backoff.
SleepTimeFixed(k) == retry_delay

\* llm_client.py:66
SleepTime(k) == retry_delay * 2^k

Request(fn, symbol, direction, article_text, article_summaries) ==
    [fn |-> fn, symbol |-> symbol, direction |-> direction, article_text |-> article_text,
     article_summaries |-> article_summaries]

\* LLMClient(): loading the model works or fails (llm_client.py:18-38)
NewClient(ok) ==
    /\ use_fallback' = ~ok
    /\ clients' = clients + 1
    /\ effects' = effects \cup {"init"}
    /\ attempt' = 0
    /\ sleeps' = << >>
    /\ scores' = << >>
    /\ response' = << >>
    /\ via' = "none"
    /\ gpc' = "generate"

Return(text, how) ==
    /\ response' = text
    /\ via' = how
    /\ gpc' = "returned"

\* why_it_moves_simple.py:20-35, up to the call of generate
SummarizeArticle ==
    /\ gpc = "call"
    /\ req.fn = "article"
    /\ IF req.article_text = << >> \/ req.article_text = NOT_FOUND
       THEN /\ Return(<< >>, "none")
            /\ UNCHANGED <<prompt, use_fallback, attempt, sleeps, scores, clients, effects>>
       ELSE /\ \E ok \in BOOLEAN :
                 /\ stubbed => ok = stub.init_ok
                 /\ NewClient(ok)
            /\ prompt' = ArticlePrompt(req.symbol, req.direction, req.article_text)
    /\ UNCHANGED <<modeVars, envVars, args, fileVars, extVars, req, auth_failed>>
    /\ UNCHANGED <<pc, runs, news_articles, i, articles_with_text, processed_articles, j,
                   processed_data, summaries, result, prev>>

\* why_it_moves_simple.py:40-58, up to the call of generate
SummarizeArticles ==
    /\ gpc = "call"
    /\ req.fn = "aggregate"
    /\ LET valid_summaries == SelectSeq(req.article_summaries, LAMBDA s : s # << >>)
       IN  IF valid_summaries = << >>
           THEN /\ Return(IF req.article_summaries = << >>
                          THEN <<NoArticlesToSummarize>> ELSE <<NoValidToCombine>>, "none")
                /\ UNCHANGED <<prompt, use_fallback, attempt, sleeps, scores, clients,
                               effects>>
           ELSE /\ \E ok \in BOOLEAN :
                     /\ stubbed => ok = stub.init_ok
                     /\ NewClient(ok)
                /\ prompt' = AggregatePrompt(req.symbol, JoinWith(valid_summaries, <<" ">>))
    /\ UNCHANGED <<modeVars, envVars, args, fileVars, extVars, req, auth_failed>>
    /\ UNCHANGED <<pc, runs, news_articles, i, articles_with_text, processed_articles, j,
                   processed_data, summaries, result, prev>>

\* llm_client.py:43-44
GenerateWithoutBackend ==
    /\ gpc = "generate"
    /\ use_fallback
    /\ Return(<<GenerateFallback(prompt)>>, "fallback")
    /\ UNCHANGED <<modeVars, envVars, args, fileVars, runVars, extVars>>
    /\ UNCHANGED <<req, prompt, use_fallback, attempt, sleeps, scores, clients, auth_failed>>

\* llm_client.py:46-61, an attempt the backend answers
AttemptSucceeds ==
    /\ gpc = "generate"
    /\ ~use_fallback
    /\ attempt < max_retries
    /\ \E label \in Labels, score \in Scores :
          /\ stubbed => label = stub.backend
          /\ scores' = <<[label |-> label, score |-> score]>>
          /\ Return(<<CraftResponse(prompt, label, score, order)>>, "backend")
    /\ attempt' = attempt + 1
    /\ effects' = effects \cup {"invoke"}
    /\ UNCHANGED <<modeVars, envVars, args, fileVars, extVars>>
    /\ UNCHANGED <<req, prompt, use_fallback, sleeps, clients, auth_failed>>
    /\ UNCHANGED <<pc, runs, news_articles, i, articles_with_text, processed_articles, j,
                   processed_data, summaries, result, prev>>

\* llm_client.py:46-49 and 63-71, an attempt that raises
AttemptFails ==
    /\ gpc = "generate"
    /\ ~use_fallback
    /\ attempt < max_retries
    /\ \E class \in ErrorClasses :
          /\ stubbed => class = stub.backend
          /\ auth_failed' = (auth_failed \/ class = "auth")
    /\ attempt' = attempt + 1
    /\ effects' = effects \cup {"invoke"}
    /\ IF attempt < max_retries - 1
       THEN /\ sleeps' = Append(sleeps, SleepTime(attempt))
            /\ UNCHANGED <<response, via, gpc>>
       ELSE /\ Return(<<GenerateFallback(prompt)>>, "fallback")
            /\ UNCHANGED sleeps
    /\ UNCHANGED <<modeVars, envVars, args, fileVars, extVars>>
    /\ UNCHANGED <<req, prompt, use_fallback, scores, clients>>
    /\ UNCHANGED <<pc, runs, news_articles, i, articles_with_text, processed_articles, j,
                   processed_data, summaries, result, prev>>

\* ------------------------------------------ summarization/why_it_moves_simple.py

\* A variant of classify_company for which no change is a gain.
classify_company_from_zero(net_change_percentage) ==
    IF net_change_percentage >= 0 THEN "gainer" ELSE "loser"

\* classify_company, lines 200-205
classify_company(net_change_percentage) ==
    IF net_change_percentage > 0 THEN "gainer" ELSE "loser"

\* process_company_data, line 80
Direction(classification) ==
    CASE classification = "gainer" -> <<"up">>
      [] classification = "loser" -> <<"down">>
      [] OTHER -> <<"neutral">>

\* get_news_articles, lines 63-76: a file that is no JSON loads as None, and
\* len(None) raises inside the try
get_news_articles(file) ==
    IF ~file.exists \/ ~file.valid THEN << >>
    ELSE IF Len(file.entries) > 5 THEN SubSeq(file.entries, 1, 5) ELSE file.entries

\* extract_key_sentences of a text of one sentence: its only sentence
extract_key_sentences(text) ==
    IF text = NOT_FOUND \/ text = << >> THEN << >> ELSE JoinWith(<<text>>, <<" ">>)

\* A variant of process_article that also distills the sentinel.
process_article_any(article) ==
    IF ~article.has_text \/ article.text = << >>
    THEN << >>
    ELSE <<[title |-> article.title,
            condensed_text |-> CondensedText(article.title, article.text)]>>

\* process_article, nlp_processor.py:15-57, for a text in which the libraries
\* find no named entity and no keyword
process_article(article) ==
    IF ~article.has_text \/ article.text = << >> \/ article.text = NOT_FOUND
    THEN << >>
    ELSE <<[title |-> article.title,
            condensed_text |-> CondensedText(article.title,
                                             extract_key_sentences(article.text))]>>

RECURSIVE process_articles_batch(_)
\* nlp_processor.py:59-69
process_articles_batch(articles) ==
    IF articles = << >> THEN << >>
    ELSE process_article(Head(articles)) \o process_articles_batch(Tail(articles))

\* The dict process_company_data returns on the paths without NLP work
\* (lines 85-91, 112-118, 192-198).
PlainResult(text) ==
    [symbol |-> args.symbol, exchange |-> args.exchange,
     type |-> classify_company(args.pct), period |-> "day", summary |-> text]

\* The dict of lines 175-181: it has no period
ExplainedResult(explanation) ==
    [symbol |-> args.symbol, exchange |-> args.exchange,
     type |-> classify_company(args.pct), summary |-> explanation,
     processed_articles |-> processed_data]

\* A variant of MoverSummary that writes the time of the call into the text.
MoverSummaryDated(res, now) ==
    [res EXCEPT !.summary = @ \o <<" ", ToString(now)>>]
    @@ [daily_change_percentage |-> args.pct, date_generated |-> now]

\* why_it_moves, lines 225-229 (and 213-221): the result with the percentage
\* and the time of the call
MoverSummary(res, now) ==
    res @@ [daily_change_percentage |-> args.pct, date_generated |-> now]

\* A call may start when no call is running, of why_it_moves or of the
\* route; process_all_stocks makes one call for the file it is at.  Calls
\* after the first are followed in a stubbed environment only.
CanCall ==
    /\ pc \in {"idle", "done"}
    /\ rpc \in {"none", "idle", "returned"}
    /\ bpc = "none" \/ (bpc = "call" /\ pc = "idle")
    /\ runs < MaxRuns
    /\ runs = 0 \/ stubbed

StartRun ==
    /\ runs' = runs + 1
    /\ prev' = result
    /\ clients' = 0
    /\ auth_failed' = FALSE

\* A variant of SaveAndReturn that keeps the file an earlier run wrote.
SaveAndReturnKeep(summary) ==
    /\ movers' = IF movers = << >> THEN <<summary>> ELSE movers
    /\ result' = <<summary>>
    /\ pc' = "done"

\* why_it_moves, lines 231-237
SaveAndReturn(summary) ==
    /\ movers' = <<summary>>
    /\ result' = <<summary>>
    /\ pc' = "done"

\* A variant of NoCacheEffects in which the path builds a client and asks the backend.
NoCacheEffectsWithBackend == {"init", "invoke", "write_summary"}

\* What lines 212-221 and 231-237 do outside the memory of the run
NoCacheEffects == {"write_summary"}

\* why_it_moves, lines 207-221 and 231-237: there is no cache file
WhyItMovesNoCache ==
    /\ CanCall
    /\ ~news.exists
    /\ StartRun
    /\ effects' = NoCacheEffects
    /\ SaveAndReturn(MoverSummary(PlainResult(NoDataSummary(args.symbol, Fmt2f(args.pct))),
                                  runs + 1))
    /\ UNCHANGED <<modeVars, envVars, args, news, nlp_data, extVars>>
    /\ UNCHANGED <<news_articles, i, articles_with_text, processed_articles, j,
                   processed_data, summaries>>
    /\ UNCHANGED <<req, gpc, prompt, use_fallback, attempt, sleeps, response, via, scores>>

\* why_it_moves with a cache file that holds no article (lines 83-91)
WhyItMovesNoArticles ==
    /\ CanCall
    /\ news.exists
    /\ get_news_articles(news) = << >>
    /\ StartRun
    /\ effects' = {"write_summary"}
    /\ SaveAndReturn(MoverSummary(PlainResult(NoNewsSummary), runs + 1))
    /\ UNCHANGED <<modeVars, envVars, args, news, nlp_data, extVars>>
    /\ UNCHANGED <<news_articles, i, articles_with_text, processed_articles, j,
                   processed_data, summaries>>
    /\ UNCHANGED <<req, gpc, prompt, use_fallback, attempt, sleeps, response, via, scores>>

\* why_it_moves with articles in the cache: up to the loop of line 95
WhyItMovesLoad ==
    /\ CanCall
    /\ news.exists
    /\ get_news_articles(news) # << >>
    /\ StartRun
    /\ effects' = {}
    /\ news_articles' = get_news_articles(news)
    /\ i' = 1
    /\ articles_with_text' = 0
    /\ pc' = "count"
    /\ UNCHANGED <<modeVars, envVars, args, fileVars, extVars, result>>
    /\ UNCHANGED <<processed_articles, j, processed_data, summaries>>
    /\ UNCHANGED <<req, gpc, prompt, use_fallback, attempt, sleeps, response, via, scores>>

InLoop == pc = "count" /\ i <= Len(news_articles)

\* line 97 with an entry that is no dict: the TypeError leaves why_it_moves
ArticleNotADict ==
    /\ InLoop
    /\ ~news_articles[i].is_dict
    /\ pc' = "raised"
    /\ UNCHANGED <<modeVars, envVars, args, fileVars, genVars, extVars>>
    /\ UNCHANGED <<runs, news_articles, i, articles_with_text, processed_articles, j,
                   processed_data, summaries, result, prev, effects>>

\* A variant of HasUsableText that counts a stored sentinel as a text.
HasUsableTextOrSentinel(article) == article.has_text

\* lines 97 and 106: the text is there and is not the sentinel
HasUsableText(article) == article.has_text /\ article.text # NOT_FOUND

\* lines 97-99
ArticleHasText ==
    /\ InLoop
    /\ news_articles[i].is_dict
    /\ HasUsableText(news_articles[i])
    /\ articles_with_text' = articles_with_text + 1
    /\ i' = i + 1
    /\ UNCHANGED <<modeVars, envVars, args, fileVars, genVars, extVars>>
    /\ UNCHANGED <<pc, runs, news_articles, processed_articles, j, processed_data,
                   summaries, result, prev, effects>>

\* A variant of NewsFileAfter that stores the extracted text in the file.
NewsFileEnriched(file, k, text) ==
    [file EXCEPT !.entries[k].has_text = TRUE, !.entries[k].text = text]

\* line 105: the text goes into the dict in memory, and the file it was
\* loaded from is not opened again
NewsFileAfter(file, k, text) == file

\* lines 102-107: the extractor is called
ArticleExtract ==
    /\ InLoop
    /\ news_articles[i].is_dict
    /\ ~HasUsableText(news_articles[i])
    /\ news_articles[i].has_url /\ ~news_articles[i].has_text
    /\ \E full_article_text \in ExtractResults :
          /\ stubbed => full_article_text = stub.extract
          /\ news_articles' = [news_articles EXCEPT ![i].has_text = TRUE,
                                                    ![i].text = full_article_text]
          /\ articles_with_text' =
                articles_with_text + (IF full_article_text # NOT_FOUND THEN 1 ELSE 0)
          /\ news' = NewsFileAfter(news, i, full_article_text)
    /\ effects' = effects \cup {"extract"}
    /\ i' = i + 1
    /\ UNCHANGED <<modeVars, envVars, args, movers, nlp_data, genVars, extVars>>
    /\ UNCHANGED <<pc, runs, processed_articles, j, processed_data, summaries, result, prev>>

\* lines 102-103 when the condition of line 103 is false
ArticleSkipped ==
    /\ InLoop
    /\ news_articles[i].is_dict
    /\ ~HasUsableText(news_articles[i])
    /\ ~(news_articles[i].has_url /\ ~news_articles[i].has_text)
    /\ i' = i + 1
    /\ UNCHANGED <<modeVars, envVars, args, fileVars, genVars, extVars>>
    /\ UNCHANGED <<pc, runs, news_articles, articles_with_text, processed_articles, j,
                   processed_data, summaries, result, prev, effects>>

AfterLoop == pc = "count" /\ i > Len(news_articles)

\* lines 110-118
NoArticleText ==
    /\ AfterLoop
    /\ articles_with_text = 0
    /\ effects' = effects \cup {"write_summary"}
    /\ SaveAndReturn(MoverSummary(PlainResult(NoNewsSummary), runs))
    /\ UNCHANGED <<modeVars, envVars, args, news, nlp_data, genVars, extVars>>
    /\ UNCHANGED <<runs, news_articles, i, articles_with_text, processed_articles, j,
                   processed_data, summaries, prev>>

\* line 122: the articles are distilled
Distill ==
    /\ AfterLoop
    /\ articles_with_text > 0
    /\ stubbed => stub.nlp_ok
    /\ effects' = effects \cup {"distill"}
    /\ processed_articles' = process_articles_batch(news_articles)
    /\ j' = 1
    /\ processed_data' = << >>
    /\ summaries' = << >>
    /\ pc' = "summarize"
    /\ UNCHANGED <<modeVars, envVars, args, fileVars, genVars, extVars>>
    /\ UNCHANGED <<runs, news_articles, i, articles_with_text, result, prev>>

\* line 122 when a library raises, and lines 190-198
DistillRaises ==
    /\ AfterLoop
    /\ articles_with_text > 0
    /\ stubbed => ~stub.nlp_ok
    /\ effects' = effects \cup {"distill", "write_summary"}
    /\ SaveAndReturn(MoverSummary(PlainResult(ErrorSummary), runs))
    /\ UNCHANGED <<modeVars, envVars, args, news, nlp_data, genVars, extVars>>
    /\ UNCHANGED <<runs, news_articles, i, articles_with_text, processed_articles, j,
                   processed_data, summaries, prev>>

\* line 155: summarize_article is called for the next processed article
RequestSummary ==
    /\ pc = "summarize"
    /\ gpc = "none"
    /\ j <= Len(processed_articles)
    /\ req' = Request("article", args.symbol, Direction(classify_company(args.pct)),
                      processed_articles[j].condensed_text, << >>)
    /\ gpc' = "call"
    /\ UNCHANGED <<modeVars, envVars, args, fileVars, runVars, extVars>>
    /\ UNCHANGED <<prompt, use_fallback, attempt, sleeps, response, via, scores, clients,
                   auth_failed>>

Truthy(r) == r # << >> /\ r[1] # << >>

\* lines 143-160, after summarize_article has returned
ArticleSummarized ==
    /\ pc = "summarize"
    /\ gpc = "returned"
    /\ LET article == processed_articles[j]
           article_data == [title |-> article.title,
                            condensed_text |-> article.condensed_text,
                            summary |-> IF Truthy(response) THEN response ELSE << >>]
       IN  /\ processed_data' = Append(processed_data, article_data)
           /\ summaries' = IF Truthy(response) THEN Append(summaries, response[1])
                           ELSE summaries
    /\ j' = j + 1
    /\ gpc' = "none"
    /\ UNCHANGED <<modeVars, envVars, args, fileVars, extVars>>
    /\ UNCHANGED <<pc, runs, news_articles, i, articles_with_text, processed_articles,
                   result, prev, effects>>
    /\ UNCHANGED <<req, prompt, use_fallback, attempt, sleeps, response, via, scores,
                   clients, auth_failed>>

AfterSummaries == pc = "summarize" /\ gpc = "none" /\ j > Len(processed_articles)

\* lines 163-172 and 184-189
ReturnNoValidSummaries ==
    /\ AfterSummaries
    /\ summaries = << >>
    /\ nlp_data' = <<processed_data>>
    /\ effects' = effects \cup {"write_nlp", "write_summary"}
    /\ SaveAndReturn(MoverSummary(PlainResult(NoValidSummaries)
                                  @@ [processed_articles |-> processed_data], runs))
    /\ UNCHANGED <<modeVars, envVars, args, news, genVars, extVars>>
    /\ UNCHANGED <<runs, news_articles, i, articles_with_text, processed_articles, j,
                   processed_data, summaries, prev>>

\* line 174: summarize_articles is called
RequestAggregate ==
    /\ AfterSummaries
    /\ summaries # << >>
    /\ req' = Request("aggregate", args.symbol, Direction(classify_company(args.pct)),
                      << >>, summaries)
    /\ gpc' = "call"
    /\ pc' = "aggregate"
    /\ UNCHANGED <<modeVars, envVars, args, fileVars, extVars>>
    /\ UNCHANGED <<runs, news_articles, i, articles_with_text, processed_articles, j,
                   processed_data, summaries, result, prev, effects>>
    /\ UNCHANGED <<prompt, use_fallback, attempt, sleeps, response, via, scores, clients,
                   auth_failed>>

\* lines 175-189, after summarize_articles has returned
ReturnExplanation ==
    /\ pc = "aggregate"
    /\ gpc = "returned"
    /\ nlp_data' = <<processed_data>>
    /\ effects' = effects \cup {"write_nlp", "write_summary"}
    /\ SaveAndReturn(MoverSummary(ExplainedResult(response[1]), runs))
    /\ gpc' = "none"
    /\ UNCHANGED <<modeVars, envVars, args, news, extVars>>
    /\ UNCHANGED <<runs, news_articles, i, articles_with_text, processed_articles, j,
                   processed_data, summaries, prev>>
    /\ UNCHANGED <<req, prompt, use_fallback, attempt, sleeps, response, via, scores,
                   clients, auth_failed>>

\* ------------------------------------------ data_fetchers/article_extractor.py

\* create_retry_session, line 10
retries == 3
status_forcelist == {500, 502, 504}
\* the statuses urllib3 retries when the response has a Retry-After header
RETRY_AFTER_STATUS_CODES == {413, 429, 503}

YahooUrl == "https://finance.yahoo.com/news/a"
OtherUrl == "https://example.com/a"
\* requests refuses a URL without a scheme before it sends anything
NoSchemeUrls == {"example.com/a"}
FetchableUrls == {YahooUrl, OtherUrl}
Urls == {"", "No URL"} \cup NoSchemeUrls \cup FetchableUrls

\* What the HTTP layer can answer to one request: a response, or no response
\* (a timeout; a DNS, TLS or connection error).
HttpOutcomes ==
    {[kind |-> "response", status |-> s, retry_after |-> FALSE] : s \in {200, 403, 404, 429, 500, 502, 503, 504}}
    \cup {[kind |-> "response", status |-> s, retry_after |-> TRUE] : s \in {429, 503}}
    \cup {[kind |-> k, status |-> 0, retry_after |-> FALSE] : k \in {"timeout", "connection"}}

\* A variant of Retryable that also retries the client errors.
RetryableWith4xx(o) ==
    \/ o.kind # "response"
    \/ o.status \in status_forcelist \cup {403, 404}
    \/ o.retry_after /\ o.status \in RETRY_AFTER_STATUS_CODES

\* Retry.is_retry and the errors urlopen retries, for the session of lines 13-23
Retryable(o) ==
    \/ o.kind # "response"
    \/ o.status \in status_forcelist
    \/ o.retry_after /\ o.status \in RETRY_AFTER_STATUS_CODES

\* The page a 200 response carries, as lines 63-93 see it: the containers it
\* has, and whether they hold text.
Pages ==
    [final_url : FetchableUrls,
     caas_body : {"none", "empty", "text"},
     main_body : {"none", "empty", "text"},
     article : {"none", "text"},
     paragraphs : {"none", "long"}]

\* lines 63-96
TextOf(page) ==
    IF page.final_url = YahooUrl /\ page.caas_body # "none"
    THEN IF page.caas_body = "text" THEN ArticleText ELSE << >>
    ELSE IF page.main_body # "none"
    THEN IF page.main_body = "text" THEN ArticleText ELSE << >>
    ELSE IF page.article = "text" \/ page.paragraphs = "long"
    THEN ArticleText
    ELSE NOT_FOUND

\* What lines 63-93 find in the page
FoundIn(page) ==
    IF page.final_url = YahooUrl /\ page.caas_body # "none" THEN "caas_body"
    ELSE IF page.main_body # "none" THEN "main_body"
    ELSE IF page.article = "text" THEN "article"
    ELSE IF page.paragraphs = "long" THEN "paragraphs"
    ELSE "nothing"

Returned(text, what) ==
    /\ extracted' = <<text>>
    /\ found' = what
    /\ xpc' = "returned"

\* lines 31-33
ExtractNoUrl ==
    /\ xpc = "call"
    /\ article_url \in {"", "No URL"}
    /\ Returned(NOT_FOUND, "no page")
    /\ UNCHANGED <<modeVars, envVars, args, fileVars, runVars, genVars, article_url, responses>>

\* lines 41 and 100-102: requests raises before any request is sent
ExtractBadUrl ==
    /\ xpc = "call"
    /\ article_url \in NoSchemeUrls
    /\ Returned(NOT_FOUND, "no page")
    /\ UNCHANGED <<modeVars, envVars, args, fileVars, runVars, genVars, article_url, responses>>

Requesting == xpc \in {"call", "retry"} /\ article_url \in FetchableUrls

\* line 41: a request whose outcome the session retries
RequestRetried ==
    /\ Requesting
    /\ \E o \in HttpOutcomes :
          /\ Retryable(o)
          /\ Len(responses) < retries
          /\ responses' = Append(responses, o)
    /\ xpc' = "retry"
    /\ UNCHANGED <<modeVars, envVars, args, fileVars, runVars, genVars, article_url, extracted, found>>

\* lines 41 and 97-102: the last request allowed gets no response
RequestFails ==
    /\ Requesting
    /\ \E o \in HttpOutcomes :
          /\ o.kind # "response"
          /\ Len(responses) >= retries
          /\ responses' = Append(responses, o)
    /\ Returned(NOT_FOUND, "no page")
    /\ UNCHANGED <<modeVars, envVars, args, fileVars, runVars, genVars, article_url>>

\* lines 41-53: the session hands a response that is not 200 to the extractor
ResponseNotOK ==
    /\ Requesting
    /\ \E o \in HttpOutcomes :
          /\ o.kind = "response"
          /\ o.status # 200
          /\ ~Retryable(o) \/ Len(responses) >= retries
          /\ responses' = Append(responses, o)
    /\ Returned(NOT_FOUND, "no page")
    /\ UNCHANGED <<modeVars, envVars, args, fileVars, runVars, genVars, article_url>>

\* lines 41-96: a 200 response, and what is found in its page
ResponseOK ==
    /\ Requesting
    /\ responses' = Append(responses, [kind |-> "response", status |-> 200,
                                       retry_after |-> FALSE])
    /\ \E page \in Pages : Returned(TextOf(page), FoundIn(page))
    /\ UNCHANGED <<modeVars, envVars, args, fileVars, runVars, genVars, article_url>>

\* lines 60-93 and 103-105: reading the page raises
ResponseUnreadable ==
    /\ Requesting
    /\ responses' = Append(responses, [kind |-> "response", status |-> 200,
                                       retry_after |-> FALSE])
    /\ Returned(NOT_FOUND, "error")
    /\ UNCHANGED <<modeVars, envVars, args, fileVars, runVars, genVars, article_url>>

\* ------------------------------------------------------------ specifications

NoRequest == Request("article", << >>, << >>, << >>, << >>)

IdleRun ==
    /\ pc = "idle"
    /\ runs = 0
    /\ news_articles = << >>
    /\ i = 1
    /\ articles_with_text = 0
    /\ processed_articles = << >>
    /\ j = 1
    /\ processed_data = << >>
    /\ summaries = << >>
    /\ result = << >>
    /\ prev = << >>
    /\ effects = {}
    /\ movers = << >>
    /\ nlp_data = << >>

IdleClient ==
    /\ prompt = << >>
    /\ use_fallback = FALSE
    /\ attempt = 0
    /\ sleeps = << >>
    /\ response = << >>
    /\ via = "none"
    /\ scores = << >>
    /\ clients = 0
    /\ auth_failed = FALSE

IdleExtractor ==
    /\ responses = << >>
    /\ extracted = << >>
    /\ found = "no page"

IdleRoute ==
    /\ rpc = "none"
    /\ called = << >>
    /\ routed = << >>
    /\ routes = 0

IdleBatch ==
    /\ bpc = "none"
    /\ news_files = << >>
    /\ batch_at = 1
    /\ attempted = << >>

IdleThreads ==
    /\ cruns = << >>
    /\ cfiles = << >>
    /\ clog = << >>
    /\ clock = 0

IdlePure ==
    /\ fpc = "none"
    /\ fn_in = << >>
    /\ fn_out = << >>

Calls == [symbol : Symbols, exchange : {"NASDAQ"}, pct : Percentages]

\* A process that will call why_it_moves, in a free environment.
Init ==
    /\ stubbed = FALSE
    /\ stub = NoStub
    /\ order \in HashOrders
    /\ args \in Calls
    /\ news \in Caches
    /\ IdleRun
    /\ req = NoRequest
    /\ gpc = "none"
    /\ IdleClient
    /\ article_url = ""
    /\ xpc = "none"
    /\ IdleExtractor
    /\ IdleRoute
    /\ IdleBatch
    /\ IdleThreads
    /\ IdlePure

\* The same process with the extractor, the NLP libraries and the backend stubbed.
InitStub ==
    /\ stubbed = TRUE
    /\ stub \in Stubs
    /\ order \in HashOrders
    /\ args \in Calls
    /\ news \in Caches
    /\ IdleRun
    /\ req = NoRequest
    /\ gpc = "none"
    /\ IdleClient
    /\ article_url = ""
    /\ xpc = "none"
    /\ IdleExtractor
    /\ IdleRoute
    /\ IdleBatch
    /\ IdleThreads
    /\ IdlePure

Summarization ==
    \/ SummarizeArticle
    \/ SummarizeArticles
    \/ GenerateWithoutBackend
    \/ AttemptSucceeds
    \/ AttemptFails

Next ==
    \/ WhyItMovesNoCache
    \/ WhyItMovesNoArticles
    \/ WhyItMovesLoad
    \/ ArticleNotADict
    \/ ArticleHasText
    \/ ArticleExtract
    \/ ArticleSkipped
    \/ NoArticleText
    \/ Distill
    \/ DistillRaises
    \/ RequestSummary
    \/ ArticleSummarized
    \/ ReturnNoValidSummaries
    \/ RequestAggregate
    \/ ReturnExplanation
    \/ Summarization

Spec == Init /\ [][Next]_vars

SpecStub == InitStub /\ [][Next]_vars

\* One call of summarize_article or summarize_articles.
SummarySymbols == Symbols \cup {<<"ERIC", " ", "B">>}
CondensedTexts ==
    {CondensedText(ArticleTitle, ArticleText),
     CondensedText(<<"Here", " ", "is", " ", "why", " ", "the", " ", "stock", " ", "might",
                     " ", "be", " ", "moving", " ", "today">>, ArticleText),
     CondensedText(<<"What", " ", "about", " ", "Apple", " ", "stock">>, ArticleText),
     NOT_FOUND,
     << >>}
SummaryLists ==
    {<< >>,
     <<<< >>>>,
     <<ArticleText>>,
     <<ArticleText, <<"Shares", " ", "fell", " ", "today", ".">>>>,
     <<<< >>, FallbackArticle(<<"ACME">>, <<"up">>)>>,
     <<ArticlePositive(<<"ACME">>, <<"up">>, Fmt2(90)),
       ArticleNegative(<<"ACME">>, <<"up">>, Fmt2(90))>>}
Requests ==
    {Request("article", s, d, t, << >>) : s \in SummarySymbols, d \in {<<"up">>, <<"down">>},
                                          t \in CondensedTexts}
    \cup {Request("aggregate", s, <<"up">>, << >>, l) : s \in SummarySymbols, l \in SummaryLists}

InitSumm ==
    /\ stubbed = FALSE
    /\ stub = NoStub
    /\ order \in ProductOrders
    /\ args = [symbol |-> <<"ACME">>, exchange |-> "NASDAQ", pct |-> 1500]
    /\ news = [exists |-> FALSE, valid |-> FALSE, entries |-> << >>]
    /\ IdleRun
    /\ req \in Requests
    /\ gpc = "call"
    /\ IdleClient
    /\ article_url = ""
    /\ xpc = "none"
    /\ IdleExtractor
    /\ IdleRoute
    /\ IdleBatch
    /\ IdleThreads
    /\ IdlePure

SpecSumm == InitSumm /\ [][Summarization]_vars

\* One call of extract_article_text.
InitExtract ==
    /\ stubbed = FALSE
    /\ stub = NoStub
    /\ order = <<"AI", "cloud", "new">>
    /\ args = [symbol |-> <<"ACME">>, exchange |-> "NASDAQ", pct |-> 1500]
    /\ news = [exists |-> FALSE, valid |-> FALSE, entries |-> << >>]
    /\ IdleRun
    /\ req = NoRequest
    /\ gpc = "none"
    /\ IdleClient
    /\ article_url \in Urls
    /\ xpc = "call"
    /\ IdleExtractor
    /\ IdleRoute
    /\ IdleBatch
    /\ IdleThreads
    /\ IdlePure

NextExtract ==
    \/ ExtractNoUrl
    \/ ExtractBadUrl
    \/ RequestRetried
    \/ RequestFails
    \/ ResponseNotOK
    \/ ResponseOK
    \/ ResponseUnreadable

SpecExtract == InitExtract /\ [][NextExtract]_vars

\* ---------------------------------- data_fetchers/combined_news_fetcher.py

MaxRoutes == 2

\* str.upper() of the exchange codes the calls are made with
Upper(exchange) == IF exchange = "nyse" THEN "NYSE" ELSE exchange

RouteExchanges == {"NASDAQ", "nyse", "XETRA", "OMXH", "OMXT", "TSX"}

\* fetch_all_news_for_symbol, lines 28, 44, 49, 60 and 71: the chain of an exchange
Family(exchange) ==
    LET code == Upper(exchange)
    IN  IF code \in {"US", "NYSE", "NASDAQ", "AMEX"} THEN "US"
        ELSE IF code \in {"EU", "EURONEXT", "XETRA", "LSE"} THEN "EU"
        ELSE IF code \in {"NORDIC", "OMXH", "OMXS", "OMXC"} THEN "NORDIC"
        ELSE IF code \in {"BALTIC", "OMXT", "OMXR", "OMXV"} THEN "BALTIC"
        ELSE "unknown"

\* An article a fetcher returns: a dict with a title and a url, with or
\* without the field full_article_text
Article(title, source, has_text, text) ==
    [Entry(TRUE, has_text, text, TRUE) EXCEPT !.title = title] @@ [source |-> source]

SecondTitle == <<"Shares", " ", "fell">>
SummaryText == <<"Shares", " ", "fell", " ", "today", ".">>
\* fetch_alpha_vantage_news.py:89
NoSummaryAvailable == <<"No", " ", "summary", " ", "available">>

\* fetch_alpha_vantage_news, lines 83-105: the text is what
\* get_article_full_text extracted or, when that failed, the summary of the
\* feed: a text, an empty string, or the default of line 89
AlphaTexts == {ArticleText, SummaryText, << >>, NoSummaryAvailable}

AlphaArticle(title, text) == Article(title, "Alpha Vantage", TRUE, text)

\* What fetch_alpha_vantage_news returns: [] without a key, on an error and
\* for an empty feed (lines 28, 48, 57, 115, 118), else up to three articles
AlphaOutputs ==
    {<< >>}
    \cup {<<AlphaArticle(ArticleTitle, t)>> : t \in AlphaTexts}
    \cup {<<AlphaArticle(ArticleTitle, ArticleText), AlphaArticle(SecondTitle, t)>> :
            t \in {SummaryText, NoSummaryAvailable}}

\* fetch_us_news, lines 138-143: an article of MarketBeat has no full_article_text
MarketBeatArticle(title) == Article(title, "MarketBeat", FALSE, << >>)

\* What lines 23-153 of fetch_us_news collect from MarketBeat
MarketBeatOutputs ==
    {<< >>,
     <<MarketBeatArticle(ArticleTitle)>>,
     <<MarketBeatArticle(SecondTitle), MarketBeatArticle(ArticleTitle)>>}

\* fetch_news.py:155-162, an article of fetch_news_data_yahoo
YahooArticle(headline, content) ==
    [headline |-> headline, url |-> "https://finance.yahoo.com/news/a",
     full_article_text |-> content]

NoContentFound == <<"No", " ", "content", " ", "found">>

\* What fetch_news_data_yahoo returns
YahooOutputs ==
    {<< >>,
     <<YahooArticle(ArticleTitle, ArticleText)>>,
     <<YahooArticle(SecondTitle, NoContentFound), YahooArticle(ArticleTitle, ArticleText)>>}

\* A call of fetch_news_data_yahoo returns a list or raises
YahooOutcomes ==
    [raised : {FALSE}, articles : YahooOutputs] \cup {[raised |-> TRUE, articles |-> << >>]}

\* fetch_us_news, lines 161-167: the dict made of an article of Yahoo
FromYahoo(yahoo_article) == Article(yahoo_article.headline, "Yahoo Finance", FALSE, << >>)

\* fetch_european_news, lines 60-65: the articles whose text is not the sentinel
EuropeanArticle(title, text) ==
    [Entry(TRUE, TRUE, text, TRUE) EXCEPT !.title = title]

EuropeanOutputs ==
    {<< >>,
     <<EuropeanArticle(ArticleTitle, ArticleText)>>,
     <<EuropeanArticle(ArticleTitle, << >>), EuropeanArticle(SecondTitle, ArticleText)>>}

\* get_gcf_issuer_id, lines 93-105: the mapping of line 99 is empty
symbol_to_issuer_id == << >>

None == "None"

get_gcf_issuer_id(symbol) ==
    IF symbol \in DOMAIN symbol_to_issuer_id THEN symbol_to_issuer_id[symbol] ELSE None

\* A variant of Resolved that takes every answer of the lookup for an id.
ResolvedAlways(gcfIssuerId) == TRUE

\* lines 54 and 65: "if gcfIssuerId:"
Resolved(gcfIssuerId) == gcfIssuerId # None

\* fetch_news_for_company of the regional fetchers: up to three articles
\* with the text of the page
RegionalOutputs == {<< >>, <<EuropeanArticle(ArticleTitle, ArticleText)>>}

Fetched(fetcher, output) == [fetcher |-> fetcher, output |-> output]

\* A call of fetch_all_news_for_symbol starts (lines 21-28)
RouteCall ==
    /\ rpc \in {"idle", "returned"}
    /\ pc \in {"idle", "done"}
    /\ routes < MaxRoutes
    /\ routes' = routes + 1
    /\ called' = << >>
    /\ routed' = << >>
    /\ \E exchange \in RouteExchanges :
          /\ args' = [args EXCEPT !.exchange = exchange]
          /\ rpc' = CASE Family(exchange) \in {"US", "unknown"} -> "alpha"
                      [] Family(exchange) = "EU" -> "european"
                      [] OTHER -> "regional"
    /\ UNCHANGED <<pureVars, envVars, fileVars, runVars, genVars, extVars, batchVars, concVars>>

\* A variant of AfterAlpha that asks MarketBeat whatever Alpha Vantage gave.
AfterAlphaAlways(alpha_articles) == "marketbeat"

\* lines 35-42 and 75-79: fetch_us_news is called when Alpha Vantage gave nothing
AfterAlpha(alpha_articles) == IF alpha_articles # << >> THEN "save" ELSE "marketbeat"

\* lines 33-37 and 74-76
RouteAlpha ==
    /\ rpc = "alpha"
    /\ \E alpha_articles \in AlphaOutputs :
          /\ called' = Append(called, Fetched("alpha_vantage", alpha_articles))
          /\ routed' = routed \o alpha_articles
          /\ rpc' = AfterAlpha(alpha_articles)
    /\ UNCHANGED <<pureVars, envVars, args, fileVars, runVars, genVars, extVars, batchVars, concVars>>
    /\ UNCHANGED routes

\* lines 41-42 and 78-79, and fetch_us_news up to line 156
RouteMarketBeat ==
    /\ rpc = "marketbeat"
    /\ \E news_data \in MarketBeatOutputs :
          /\ called' = Append(called, Fetched("marketbeat", news_data))
          /\ routed' = routed \o news_data
          /\ rpc' = IF news_data # << >> THEN "save" ELSE "yahoo"
    /\ UNCHANGED <<pureVars, envVars, args, fileVars, runVars, genVars, extVars, batchVars, concVars>>
    /\ UNCHANGED routes

\* fetch_us_news, lines 156-172: the fallback; an exception of the fetcher
\* is caught and leaves the list empty
RouteYahoo ==
    /\ rpc = "yahoo"
    /\ \E outcome \in YahooOutcomes :
          /\ called' = Append(called, Fetched("yahoo", outcome))
          /\ routed' = IF outcome.raised THEN routed
                       ELSE routed \o [k \in 1..Len(outcome.articles) |->
                                          FromYahoo(outcome.articles[k])]
    /\ rpc' = "save"
    /\ UNCHANGED <<pureVars, envVars, args, fileVars, runVars, genVars, extVars, batchVars, concVars>>
    /\ UNCHANGED routes

\* lines 44-47
RouteEuropean ==
    /\ rpc = "european"
    /\ \E eu_articles \in EuropeanOutputs :
          /\ called' = Append(called, Fetched("european", eu_articles))
          /\ routed' = routed \o eu_articles
    /\ rpc' = "save"
    /\ UNCHANGED <<pureVars, envVars, args, fileVars, runVars, genVars, extVars, batchVars, concVars>>
    /\ UNCHANGED routes

\* lines 49-69: the regional fetcher is called when the issuer is known
RouteRegional ==
    /\ rpc = "regional"
    /\ LET gcfIssuerId == get_gcf_issuer_id(args.symbol)
       IN  IF Resolved(gcfIssuerId)
           THEN \E regional_articles \in RegionalOutputs :
                   /\ called' = Append(called, Fetched(Family(args.exchange), regional_articles))
                   /\ routed' = routed \o regional_articles
           ELSE UNCHANGED <<called, routed>>
    /\ rpc' = "save"
    /\ UNCHANGED <<pureVars, envVars, args, fileVars, runVars, genVars, extVars, batchVars, concVars>>
    /\ UNCHANGED routes

\* lines 81-90 and save_json: the file is opened with 'w'
RouteSave ==
    /\ rpc = "save"
    /\ news' = IF routed # << >>
               THEN [exists |-> TRUE, valid |-> TRUE, entries |-> routed]
               ELSE news
    /\ rpc' = "returned"
    /\ UNCHANGED <<pureVars, envVars, args, movers, nlp_data, runVars, genVars, extVars, batchVars,
                   concVars>>
    /\ UNCHANGED <<called, routed, routes>>

NextRoute ==
    \/ RouteCall
    \/ RouteAlpha
    \/ RouteMarketBeat
    \/ RouteYahoo
    \/ RouteEuropean
    \/ RouteRegional
    \/ RouteSave

\* A process that calls fetch_all_news_for_symbol for one symbol, which has
\* no news cache yet.
InitRoute ==
    /\ stubbed = FALSE
    /\ stub = NoStub
    /\ order = <<"AI", "cloud", "new">>
    /\ args = [symbol |-> <<"ACME">>, exchange |-> "US", pct |-> 1500]
    /\ news = [exists |-> FALSE, valid |-> FALSE, entries |-> << >>]
    /\ IdleRun
    /\ req = NoRequest
    /\ gpc = "none"
    /\ IdleClient
    /\ article_url = ""
    /\ xpc = "none"
    /\ IdleExtractor
    /\ rpc = "idle"
    /\ called = << >>
    /\ routed = << >>
    /\ routes = 0
    /\ IdleBatch
    /\ IdleThreads
    /\ IdlePure

SpecRoute == InitRoute /\ [][NextRoute]_vars

\* ------------------------------------- caches of several different articles

TitledEntry(title, has_text, text) ==
    [Entry(TRUE, has_text, text, TRUE) EXCEPT !.title = title]

\* The entries of a cache whose articles differ in title and in text
TitledEntries ==
    {TitledEntry(ArticleTitle, TRUE, ArticleText),
     TitledEntry(SecondTitle, TRUE, SummaryText),
     TitledEntry(ArticleTitle, TRUE, NOT_FOUND),
     TitledEntry(SecondTitle, TRUE, << >>),
     TitledEntry(SecondTitle, FALSE, << >>),
     Entry(FALSE, FALSE, << >>, FALSE)}

TitledCaches ==
    {[exists |-> FALSE, valid |-> FALSE, entries |-> << >>]}
    \cup {[exists |-> TRUE, valid |-> TRUE, entries |-> es] :
            es \in SeqsUpTo(TitledEntries, MaxArticles)}

\* The stubs of the runs that distill: the extractor finds the text or
\* does not, and each of the libraries and the backend works or fails
DistillStubs ==
    {[extract |-> x, nlp_ok |-> TRUE, init_ok |-> TRUE, backend |-> b] :
        x \in {ArticleText, NOT_FOUND}, b \in {"positive", "transient"}}
    \cup {[extract |-> ArticleText, nlp_ok |-> FALSE, init_ok |-> TRUE, backend |-> "positive"],
          [extract |-> ArticleText, nlp_ok |-> TRUE, init_ok |-> FALSE, backend |-> "transient"]}

\* A process that calls why_it_moves on a cache of different articles.
InitDistill ==
    /\ stubbed = TRUE
    /\ stub \in DistillStubs
    /\ order = <<"AI", "cloud", "new">>
    /\ args = [symbol |-> <<"ACME">>, exchange |-> "NASDAQ", pct |-> 1500]
    /\ news \in TitledCaches
    /\ IdleRun
    /\ req = NoRequest
    /\ gpc = "none"
    /\ IdleClient
    /\ article_url = ""
    /\ xpc = "none"
    /\ IdleExtractor
    /\ IdleRoute
    /\ IdleBatch
    /\ IdleThreads
    /\ IdlePure

SpecDistill == InitDistill /\ [][Next]_vars

\* ----------------------------------------- fetching and explaining by turns

\* The stubs of the pipeline: one environment in which everything works,
\* and one for each failure of the extractor, the libraries and the backend
PipelineStubs ==
    {[extract |-> ArticleText, nlp_ok |-> TRUE, init_ok |-> TRUE, backend |-> "positive"],
     [extract |-> NOT_FOUND, nlp_ok |-> TRUE, init_ok |-> TRUE, backend |-> "transient"],
     [extract |-> ArticleText, nlp_ok |-> FALSE, init_ok |-> TRUE, backend |-> "positive"],
     [extract |-> NOT_FOUND, nlp_ok |-> TRUE, init_ok |-> FALSE, backend |-> "transient"]}

\* The cache before the first call of the route: no file, or a file
\* someone put there
PipelineCaches ==
    {[exists |-> FALSE, valid |-> FALSE, entries |-> << >>],
     [exists |-> TRUE, valid |-> TRUE, entries |-> << >>],
     [exists |-> TRUE, valid |-> TRUE,
      entries |-> <<Entry(TRUE, TRUE, NOT_FOUND, TRUE), Entry(FALSE, FALSE, << >>, FALSE)>>]}

\* A process that calls fetch_all_news_for_symbol and why_it_moves for one
\* symbol, one call after the other, in any order.
InitPipeline ==
    /\ stubbed = TRUE
    /\ stub \in PipelineStubs
    /\ order = <<"AI", "cloud", "new">>
    /\ args = [symbol |-> <<"ACME">>, exchange |-> "US", pct |-> 1500]
    /\ news \in PipelineCaches
    /\ IdleRun
    /\ req = NoRequest
    /\ gpc = "none"
    /\ IdleClient
    /\ article_url = ""
    /\ xpc = "none"
    /\ IdleExtractor
    /\ rpc = "idle"
    /\ called = << >>
    /\ routed = << >>
    /\ routes = 0
    /\ IdleBatch
    /\ IdleThreads
    /\ IdlePure

NextPipeline ==
    \/ NextRoute
    \/ Next

SpecPipeline == InitPipeline /\ [][NextPipeline]_vars

\* ------------------------------------- runs of why_it_moves in several threads

\* why_it_moves_simple.py:212 and :66, the cache file of a symbol
NewsPath(symbol) == <<"STOCK_DB/news/">> \o symbol \o <<"_news.json">>

\* A variant of NlpPath that forgets the symbol.
NlpPathShared(symbol) == <<"STOCK_DB/nlp_data/">> \o <<"nlp_data.json">>

\* lines 184-185
NlpPath(symbol) == <<"STOCK_DB/nlp_data/">> \o symbol \o <<"_nlp_data.json">>

\* lines 232-233
SummaryPath(symbol) == <<"STOCK_DB/movers/">> \o symbol \o <<"_summary.json">>

\* The files of STOCK_DB the threads can touch
Paths == UNION {{NewsPath(s), NlpPath(s), SummaryPath(s)} : s \in Symbols}

\* A variant of Saved that leaves a file that exists alone.
SavedIfAbsent(old, data) == IF old = << >> THEN <<data>> ELSE old

\* save_json, file_operations.py:14-23: open(filepath, 'w') empties the file
\* and the data are written into it
Saved(old, data) == <<data>>

\* The cache files the threads find
ThreadCaches ==
    {[exists |-> FALSE, valid |-> FALSE, entries |-> << >>],
     [exists |-> TRUE, valid |-> TRUE, entries |-> <<Entry(TRUE, TRUE, ArticleText, TRUE)>>],
     [exists |-> TRUE, valid |-> TRUE, entries |-> <<Entry(TRUE, FALSE, << >>, TRUE)>>]}

\* What the backend answers to a thread; << >> when it gives no summary
ThreadResponses == {ArticleText, SummaryText}

\* A thread that is about to call why_it_moves(symbol, "NASDAQ", pct)
ThreadStart(symbol, pct) ==
    [symbol |-> symbol, exchange |-> "NASDAQ", pct |-> pct, at |-> "start",
     news_articles |-> << >>, processed_data |-> << >>, saves_nlp |-> FALSE,
     summary |-> << >>]

\* An access of a thread to a file
Access(th, op, path, data) == [thread |-> th, op |-> op, path |-> path, data |-> data]

\* why_it_moves, lines 213-221 and 225-229: the percentage and the time
\* are added to the result
ThreadSummary(run, res) ==
    res @@ [daily_change_percentage |-> run.pct, date_generated |-> clock]

\* The dict of the paths of process_company_data without NLP work, and of
\* line 213
ThreadPlain(run, text) ==
    [symbol |-> run.symbol, exchange |-> run.exchange,
     type |-> classify_company(run.pct), period |-> "day", summary |-> text]

\* process_company_data, lines 95-107: the articles after the loop, when
\* the extractor answers full_article_text
AfterExtraction(articles, full_article_text) ==
    [k \in 1..Len(articles) |->
        IF ~HasUsableText(articles[k]) /\ articles[k].has_url /\ ~articles[k].has_text
        THEN [articles[k] EXCEPT !.has_text = TRUE, !.text = full_article_text]
        ELSE articles[k]]

\* process_company_data, lines 83-198, of a thread: what it returns, the
\* list it made and whether it saves the list, for the answers of the
\* extractor, the libraries (nlp_ok) and the backend (one summary for each
\* article, or none, and the explanation)
ThreadOutcome(run, articles, full_article_text, nlp_ok, summary, explanation) ==
    LET loaded == AfterExtraction(articles, full_article_text)
        with_text == Len(SelectSeq(loaded, HasUsableText))
        processed == process_articles_batch(loaded)
        data == [k \in 1..Len(processed) |->
                    [title |-> processed[k].title,
                     condensed_text |-> processed[k].condensed_text,
                     summary |-> summary]]
        plain == [processed_data |-> << >>, saves_nlp |-> FALSE]
    IN  IF articles = << >> \/ with_text = 0
        THEN plain @@ [res |-> ThreadPlain(run, NoNewsSummary)]
        ELSE IF ~nlp_ok
        THEN plain @@ [res |-> ThreadPlain(run, ErrorSummary)]
        ELSE IF summary = << >> \/ processed = << >>
        THEN [processed_data |-> data, saves_nlp |-> TRUE,
              res |-> ThreadPlain(run, NoValidSummaries) @@ [processed_articles |-> data]]
        ELSE [processed_data |-> data, saves_nlp |-> TRUE,
              res |-> [symbol |-> run.symbol, exchange |-> run.exchange,
                       type |-> classify_company(run.pct), summary |-> explanation,
                       processed_articles |-> data]]

\* All that a call can return and save for a cache, whatever the
\* extractor, the libraries and the backend answer
Outcomes(run, articles) ==
    {ThreadOutcome(run, articles, x, ok, s, e) :
        x \in {ArticleText, NOT_FOUND}, ok \in BOOLEAN,
        s \in ThreadResponses \cup {<< >>}, e \in ThreadResponses}

Threads == 1..Len(cruns)

\* line 212: the thread asks whether the cache file of its symbol exists
ThreadCheck(th) ==
    /\ cruns[th].at = "start"
    /\ LET run == cruns[th]
           path == NewsPath(run.symbol)
       IN  /\ clog' = Append(clog, Access(th, "exists", path, << >>))
           /\ IF cfiles[path].exists
              THEN /\ cruns' = [cruns EXCEPT ![th].at = "exists"]
                   /\ UNCHANGED clock
              ELSE /\ cruns' = [cruns EXCEPT
                        ![th].at = "returned",
                        ![th].summary =
                            ThreadSummary(run, ThreadPlain(run,
                                NoDataSummary(run.symbol, Fmt2f(run.pct))))]
                   /\ clock' = clock + 1
    /\ UNCHANGED cfiles
    /\ UNCHANGED <<pureVars, envVars, args, fileVars, runVars, genVars, extVars, routeVars, batchVars>>

\* line 224 and get_news_articles: the thread reads the cache file
ThreadLoad(th) ==
    /\ cruns[th].at = "exists"
    /\ LET path == NewsPath(cruns[th].symbol)
       IN  /\ clog' = Append(clog, Access(th, "read", path, << >>))
           /\ cruns' = [cruns EXCEPT ![th].at = "loaded",
                                     ![th].news_articles = get_news_articles(cfiles[path])]
    /\ UNCHANGED <<cfiles, clock>>
    /\ UNCHANGED <<pureVars, envVars, args, fileVars, runVars, genVars, extVars, routeVars, batchVars>>

\* process_company_data up to the result, lines 78-181 and 190-198, and
\* the dict of lines 225-229
ThreadProcess(th) ==
    /\ cruns[th].at = "loaded"
    /\ \E outcome \in Outcomes(cruns[th], cruns[th].news_articles) :
          cruns' = [cruns EXCEPT
              ![th].at = IF outcome.saves_nlp THEN "save_nlp" ELSE "returned",
              ![th].processed_data = outcome.processed_data,
              ![th].saves_nlp = outcome.saves_nlp,
              ![th].summary = ThreadSummary(cruns[th], outcome.res)]
    /\ clock' = clock + 1
    /\ UNCHANGED <<cfiles, clog>>
    /\ UNCHANGED <<pureVars, envVars, args, fileVars, runVars, genVars, extVars, routeVars, batchVars>>

\* lines 184-186: the list is saved
ThreadSaveNlp(th) ==
    /\ cruns[th].at = "save_nlp"
    /\ LET path == NlpPath(cruns[th].symbol)
           data == cruns[th].processed_data
       IN  /\ cfiles' = [cfiles EXCEPT ![path] = Saved(@, data)]
           /\ clog' = Append(clog, Access(th, "write", path, <<data>>))
    /\ cruns' = [cruns EXCEPT ![th].at = "returned"]
    /\ UNCHANGED clock
    /\ UNCHANGED <<pureVars, envVars, args, fileVars, runVars, genVars, extVars, routeVars, batchVars>>

\* lines 231-237: the summary is saved and returned
ThreadSaveSummary(th) ==
    /\ cruns[th].at = "returned"
    /\ LET path == SummaryPath(cruns[th].symbol)
           data == cruns[th].summary
       IN  /\ cfiles' = [cfiles EXCEPT ![path] = Saved(@, data)]
           /\ clog' = Append(clog, Access(th, "write", path, <<data>>))
    /\ cruns' = [cruns EXCEPT ![th].at = "done"]
    /\ UNCHANGED clock
    /\ UNCHANGED <<pureVars, envVars, args, fileVars, runVars, genVars, extVars, routeVars, batchVars>>

NextThreads ==
    \/ \E th \in Threads : ThreadCheck(th)
    \/ \E th \in Threads : ThreadLoad(th)
    \/ \E th \in Threads : ThreadProcess(th)
    \/ \E th \in Threads : ThreadSaveNlp(th)
    \/ \E th \in Threads : ThreadSaveSummary(th)

\* Two threads that call why_it_moves, for two symbols or for the same,
\* when STOCK_DB holds no summary and no list yet.
InitThreads ==
    /\ stubbed = FALSE
    /\ stub = NoStub
    /\ order = <<"AI", "cloud", "new">>
    /\ args = [symbol |-> <<"ACME">>, exchange |-> "NASDAQ", pct |-> 1500]
    /\ news = [exists |-> FALSE, valid |-> FALSE, entries |-> << >>]
    /\ IdleRun
    /\ req = NoRequest
    /\ gpc = "none"
    /\ IdleClient
    /\ article_url = ""
    /\ xpc = "none"
    /\ IdleExtractor
    /\ IdleRoute
    /\ IdleBatch
    /\ \E s1 \in Symbols, s2 \in Symbols :
          cruns = <<ThreadStart(s1, 1500), ThreadStart(s2, 0 - 2346)>>
    /\ \E caches \in [Symbols -> ThreadCaches] :
          cfiles = [path \in Paths |->
                       IF \E s \in Symbols : path = NewsPath(s)
                       THEN caches[CHOOSE s \in Symbols : path = NewsPath(s)]
                       ELSE << >>]
    /\ clog = << >>
    /\ clock = 0
    /\ IdlePure

SpecThreads == InitThreads /\ [][NextThreads]_vars

\* ------------------------------------------------------ process_all_stocks

\* Path.stem of the cache file of a symbol
Stem(symbol) == symbol \o <<"_news">>

\* line 253: news_file.stem.replace("_news", "")
SymbolOfStem(stem) ==
    LET Kept(tok) == tok # "_news" IN SelectSeq(stem, Kept)

\* The cache files of the directory
BatchCaches ==
    {[exists |-> TRUE, valid |-> TRUE, entries |-> << >>],
     [exists |-> TRUE, valid |-> TRUE, entries |-> <<Entry(TRUE, TRUE, ArticleText, TRUE)>>],
     [exists |-> TRUE, valid |-> TRUE, entries |-> <<Entry(TRUE, FALSE, << >>, TRUE)>>],
     [exists |-> TRUE, valid |-> TRUE, entries |-> <<Entry(TRUE, TRUE, << >>, TRUE)>>],
     [exists |-> TRUE, valid |-> TRUE,
      entries |-> <<Entry(TRUE, TRUE, NOT_FOUND, TRUE), Entry(FALSE, FALSE, << >>, FALSE)>>]}

\* line 247: what glob lists, in any order: one file for a symbol
Listings ==
    {l \in SeqsUpTo([stem : {Stem(s) : s \in Symbols}, cache : BatchCaches], MaxRuns) :
        \A a, b \in 1..Len(l) : a # b => l[a].stem # l[b].stem}

\* The cache file why_it_moves finds for the symbol
CacheOf(symbol) ==
    IF \E k \in 1..Len(news_files) : news_files[k].stem = Stem(symbol)
    THEN news_files[CHOOSE k \in 1..Len(news_files) : news_files[k].stem = Stem(symbol)].cache
    ELSE [exists |-> FALSE, valid |-> FALSE, entries |-> << >>]

\* A variant of AfterException that gives the batch up.
AfterExceptionAbort == "finished"

\* lines 274-275: the exception is logged and the loop goes on
AfterException == "loop"

\* lines 239-250: the directory is listed
BatchStart ==
    /\ bpc = "idle"
    /\ bpc' = "loop"
    /\ batch_at' = 1
    /\ attempted' = << >>
    /\ UNCHANGED news_files
    /\ UNCHANGED <<pureVars, envVars, args, fileVars, runVars, genVars, extVars, routeVars, concVars>>

\* lines 250-264: the next file; the call finds the files of its symbol
BatchNext ==
    /\ bpc = "loop"
    /\ batch_at <= Len(news_files)
    /\ LET symbol == SymbolOfStem(news_files[batch_at].stem)
       IN  /\ \E daily_change \in Percentages :
                 args' = [symbol |-> symbol, exchange |-> "NASDAQ", pct |-> daily_change]
           /\ news' = CacheOf(symbol)
    /\ movers' = << >>
    /\ nlp_data' = << >>
    /\ pc' = "idle"
    /\ bpc' = "call"
    /\ UNCHANGED <<news_files, batch_at, attempted>>
    /\ UNCHANGED <<runs, news_articles, i, articles_with_text, processed_articles, j,
                   processed_data, summaries, result, prev, effects>>
    /\ UNCHANGED <<pureVars, envVars, genVars, extVars, routeVars, concVars>>

\* lines 264-272: why_it_moves has returned
BatchDone ==
    /\ bpc = "call"
    /\ pc = "done"
    /\ attempted' = Append(attempted, [symbol |-> args.symbol, outcome |-> "returned"])
    /\ batch_at' = batch_at + 1
    /\ bpc' = "loop"
    /\ UNCHANGED news_files
    /\ UNCHANGED <<pureVars, envVars, args, fileVars, runVars, genVars, extVars, routeVars, concVars>>

\* lines 274-275: why_it_moves has raised
BatchCatch ==
    /\ bpc = "call"
    /\ pc = "raised"
    /\ attempted' = Append(attempted, [symbol |-> args.symbol, outcome |-> "raised"])
    /\ batch_at' = batch_at + 1
    /\ bpc' = AfterException
    /\ UNCHANGED news_files
    /\ UNCHANGED <<pureVars, envVars, args, fileVars, runVars, genVars, extVars, routeVars, concVars>>

\* line 250: no file is left
BatchFinish ==
    /\ bpc = "loop"
    /\ batch_at > Len(news_files)
    /\ bpc' = "finished"
    /\ UNCHANGED <<news_files, batch_at, attempted>>
    /\ UNCHANGED <<pureVars, envVars, args, fileVars, runVars, genVars, extVars, routeVars, concVars>>

\* The calls of why_it_moves find a cache file: it was listed
NextBatch ==
    \/ BatchStart
    \/ BatchNext
    \/ BatchDone
    \/ BatchCatch
    \/ BatchFinish
    \/ WhyItMovesNoArticles
    \/ WhyItMovesLoad
    \/ ArticleNotADict
    \/ ArticleHasText
    \/ ArticleExtract
    \/ ArticleSkipped
    \/ NoArticleText
    \/ Distill
    \/ DistillRaises
    \/ RequestSummary
    \/ ArticleSummarized
    \/ ReturnNoValidSummaries
    \/ RequestAggregate
    \/ ReturnExplanation
    \/ Summarization

\* A process that calls process_all_stocks.
InitBatch ==
    /\ stubbed = TRUE
    /\ stub \in PipelineStubs
    /\ order = <<"AI", "cloud", "new">>
    /\ args = [symbol |-> << >>, exchange |-> "NASDAQ", pct |-> 0]
    /\ news = [exists |-> FALSE, valid |-> FALSE, entries |-> << >>]
    /\ IdleRun
    /\ req = NoRequest
    /\ gpc = "none"
    /\ IdleClient
    /\ article_url = ""
    /\ xpc = "none"
    /\ IdleExtractor
    /\ IdleRoute
    /\ bpc = "idle"
    /\ news_files \in Listings
    /\ batch_at = 1
    /\ attempted = << >>
    /\ IdleThreads
    /\ IdlePure

SpecBatch == InitBatch /\ [][NextBatch]_vars

\* The process runs: a step that can be taken is taken.
SpecBatchFair == SpecBatch /\ WF_vars(NextBatch)

\* ------------------------------------------------- single calls of functions

otherVars == <<envVars, args, fileVars, runVars, genVars, extVars, routeVars, batchVars,
               concVars>>

\* Nothing else runs in the process
Quiet ==
    /\ stubbed = FALSE
    /\ stub = NoStub
    /\ order = <<"AI", "cloud", "new">>
    /\ args = [symbol |-> <<"ACME">>, exchange |-> "NASDAQ", pct |-> 1500]
    /\ news = [exists |-> FALSE, valid |-> FALSE, entries |-> << >>]
    /\ IdleRun
    /\ req = NoRequest
    /\ gpc = "none"
    /\ IdleClient
    /\ article_url = ""
    /\ xpc = "none"
    /\ IdleExtractor
    /\ IdleRoute
    /\ IdleBatch
    /\ IdleThreads

\* The call returns
Applied(value) ==
    /\ fpc = "ready"
    /\ fpc' = "applied"
    /\ fn_out' = value
    /\ UNCHANGED fn_in
    /\ UNCHANGED otherVars

\* ------------------------------------------------------- classify_company

\* The changes of the day the calls are made with, in thousandths of a percent
MaxChange == 60

\* why_it_moves.py:171-176
classify_company_legacy(net_change_percentage) ==
    IF net_change_percentage > 0 THEN "gainer" ELSE "loser"

\* A call of classify_company of one of the two orchestrators
Classify ==
    Applied(IF fn_in.module = "why_it_moves_simple"
            THEN classify_company(fn_in.pct)
            ELSE classify_company_legacy(fn_in.pct))

InitClassify ==
    /\ Quiet
    /\ fpc = "ready"
    /\ fn_in \in [module : {"why_it_moves_simple", "why_it_moves"},
                  pct : (0 - MaxChange)..MaxChange]
    /\ fn_out = << >>

SpecClassify == InitClassify /\ [][Classify]_vars

\* ------------------------------------------------ the loops of the fetchers

MaxFeed == 4

\* timedelta(days=30): fetch_european_news.py:49, fetch_news.py:38 and :137
RecencyDays == 30

\* The date of a candidate: a string the parser reads, of an age in days at
\* the time of the fetch, or a string it raises on
CandidateDates ==
    {[parsable |-> TRUE, age |-> 29],
     [parsable |-> TRUE, age |-> 31],
     [parsable |-> FALSE, age |-> 0]}

\* A candidate of the feed or page: its place, its date, and whether a key
\* or attribute the loop reads without a guard is missing from it
CandidateKinds == [date : CandidateDates, bad : BOOLEAN]

\* The feeds of at most MaxFeed candidates, each numbered by its place
Feeds ==
    UNION {{[k \in 1..n |-> [id |-> k, date |-> kinds[k].date, bad |-> kinds[k].bad]] :
               kinds \in [1..n -> CandidateKinds]} : n \in 0..MaxFeed}

Fetchers == {"european", "yahoo", "globe", "alpha_vantage", "marketbeat"}

\* "article_date < one_month_ago"
TooOld(candidate) == candidate.date.parsable /\ candidate.date.age > RecencyDays

\* The dict appended for a candidate
Collected(candidate) == [id |-> candidate.id, date |-> candidate.date]

Fetch(raised, articles) == [raised |-> raised, articles |-> articles]

RECURSIVE EuropeanLoop(_, _, _)
\* fetch_european_news, lines 52-91: an exception is caught for the
\* article; the pages of the articles are found
EuropeanLoop(feed, k, filtered_articles) ==
    IF k > Len(feed) \/ Len(filtered_articles) >= 3 THEN Fetch(FALSE, filtered_articles)
    ELSE IF ~feed[k].date.parsable \/ TooOld(feed[k]) \/ feed[k].bad
    THEN EuropeanLoop(feed, k + 1, filtered_articles)
    ELSE EuropeanLoop(feed, k + 1, Append(filtered_articles, Collected(feed[k])))

RECURSIVE YahooLoop(_, _, _)
\* fetch_news_data_yahoo, fetch_news.py:140-165: date_parse of line 142 and
\* the keys of lines 146-147 raise out of the function
YahooLoop(feed, k, filtered_articles) ==
    IF k > Len(feed) \/ Len(filtered_articles) >= 3 THEN Fetch(FALSE, filtered_articles)
    ELSE IF ~feed[k].date.parsable THEN Fetch(TRUE, << >>)
    ELSE IF TooOld(feed[k]) THEN YahooLoop(feed, k + 1, filtered_articles)
    ELSE IF feed[k].bad THEN Fetch(TRUE, << >>)
    ELSE YahooLoop(feed, k + 1, Append(filtered_articles, Collected(feed[k])))

RECURSIVE GlobeLoop(_, _, _)
\* fetch_news_data_globe, fetch_news.py:46-80: the href of line 53 raises
\* out of the function; a date that is not parsed is kept as
\* "Invalid date format" and the article is appended
GlobeLoop(feed, k, news_data) ==
    IF k > Len(feed) \/ Len(news_data) >= 6 THEN Fetch(FALSE, news_data)
    ELSE IF feed[k].bad THEN Fetch(TRUE, << >>)
    ELSE IF TooOld(feed[k]) THEN GlobeLoop(feed, k + 1, news_data)
    ELSE GlobeLoop(feed, k + 1, Append(news_data, Collected(feed[k])))

\* fetch_alpha_vantage_news, lines 79-118, for the feed in the order of
\* line 76: no date is compared; the url of line 85 raises into line 116
AlphaLoop(feed) ==
    LET top_articles == SubSeq(feed, 1, Min({3, Len(feed)}))
    IN  IF \E k \in 1..Len(top_articles) : top_articles[k].bad THEN Fetch(FALSE, << >>)
        ELSE Fetch(FALSE, [k \in 1..Len(top_articles) |-> Collected(top_articles[k])])

\* fetch_us_news, lines 71-145: no date is compared, a date of no known
\* format is kept as "Invalid date format"; every access is guarded, so
\* that no candidate of this page is a bad one
MarketBeatLoop(feed) ==
    Fetch(FALSE, [k \in 1..Min({3, Len(feed)}) |-> Collected(feed[k])])

\* What the fetcher returns for the feed
FetcherOutput(fetcher, feed) ==
    CASE fetcher = "european" -> EuropeanLoop(feed, 1, << >>)
      [] fetcher = "yahoo" -> YahooLoop(feed, 1, << >>)
      [] fetcher = "globe" -> GlobeLoop(feed, 1, << >>)
      [] fetcher = "alpha_vantage" -> AlphaLoop(feed)
      [] fetcher = "marketbeat" -> MarketBeatLoop(feed)

\* A call of a fetcher
FetchNews == Applied(FetcherOutput(fn_in.fetcher, fn_in.feed))

InitFetch ==
    /\ Quiet
    /\ fpc = "ready"
    /\ fn_in \in [fetcher : Fetchers, feed : Feeds]
    /\ fn_in.fetcher = "marketbeat" => \A k \in 1..Len(fn_in.feed) : ~fn_in.feed[k].bad
    /\ fn_out = << >>

SpecFetch == InitFetch /\ [][FetchNews]_vars

\* ------------------------------------------------ loading the news cache

MaxCache == 6
MaxDay == 3

\* The news files of at most MaxCache entries, in the order of the file,
\* each numbered by its place and published on one of MaxDay days
DatedCaches ==
    UNION {{[k \in 1..n |-> [id |-> k, published |-> days[k]]] :
               days \in [1..n -> 1..MaxDay]} : n \in 0..MaxCache}

\* why_it_moves_simple.py, line 224: the cache file is there and is read
LoadNews ==
    Applied(get_news_articles([exists |-> TRUE, valid |-> TRUE, entries |-> fn_in.cache]))

InitLoad ==
    /\ Quiet
    /\ fpc = "ready"
    /\ fn_in \in [cache : DatedCaches]
    /\ fn_out = << >>

SpecLoad == InitLoad /\ [][LoadNews]_vars

\* ------------------------------------ summarize_articles, with and without BART

\* A variant of phrases_to_avoid that names no phrase.
phrases_to_avoid_none == {}

\* summarize.py:64
phrases_to_avoid ==
    {<<"several", " ", "factors">>,
     <<"combination", " ", "of", " ", "factors">>,
     <<"various", " ", "factors">>}

\* str.lower() on the words of the texts of this section
Lower(tok) ==
    CASE tok = "Several" -> "several"
      [] tok = "Combination" -> "combination"
      [] tok = "Various" -> "various"
      [] tok = "Factors" -> "factors"
      [] tok = "Of" -> "of"
      [] OTHER -> tok

LowerText(text) == [k \in 1..Len(text) |-> Lower(text[k])]

\* phrase in text, for a phrase that starts and ends where words do
PhraseIn(phrase, text) ==
    \E k \in 1..(Len(text) - Len(phrase) + 1) :
        SubSeq(text, k, k + Len(phrase) - 1) = phrase

RECURSIVE SplitSentences(_)
\* final_summary.split(". ")
SplitSentences(text) ==
    IF \E k \in 1..(Len(text) - 1) : text[k] = "." /\ text[k + 1] = " "
    THEN LET k == CHOOSE k \in 1..(Len(text) - 1) :
                     /\ text[k] = "." /\ text[k + 1] = " "
                     /\ \A l \in 1..(k - 1) : ~(text[l] = "." /\ text[l + 1] = " ")
         IN  <<SubSeq(text, 1, k - 1)>> \o SplitSentences(SubSeq(text, k + 2, Len(text)))
    ELSE <<text>>

\* summarize.py:63-69
PostFilter(final_summary) ==
    LET Kept(sentence) ==
            \A phrase \in phrases_to_avoid : ~PhraseIn(phrase, LowerText(sentence))
    IN  JoinWith(SelectSeq(SplitSentences(final_summary), Kept), <<".", " ">>)

\* What the BART pipeline of summarize.py:8-12 and :56 does with a summary:
\* it was not loaded, it raises, it returns something that is no list, or
\* it returns a list with a text of its own making
BartTexts ==
    {<<"Profit", " ", "rose", ".">>,
     <<"Several", " ", "factors">>,
     <<"Shares", " ", "fell", " ", "on", " ", "several", " ", "factors", ".", " ",
       "Profit", " ", "rose", ".">>,
     <<"Profit", " ", "rose", ".", " ", "A", " ", "Combination", " ", "of", " ", "factors",
       " ", "moved", " ", "Shares", ".">>}

BartOutcomes ==
    {[kind |-> k, text |-> << >>] : k \in {"unavailable", "raises", "no list"}}
    \cup {[kind |-> "list", text |-> t] : t \in BartTexts}

\* client.generate(prompt) for the prompt of summarize_articles: the fallback
\* of llm_client.py:43-44 and :71, or the answer crafted from a label
Generated(call) ==
    LET request == AggregatePrompt(call.symbol,
                       JoinWith(SelectSeq(call.said, LAMBDA t : t # << >>), <<" ">>))
    IN  IF call.label = "fallback" THEN GenerateFallback(request)
        ELSE CraftResponse(request, call.label, 90, call.order)

\* summarize_articles of why_it_moves_simple.py:40-61 and of summarize.py:34-77
summarize_articles(call) ==
    IF call.said = << >> THEN NoArticlesToSummarize
    ELSE IF SelectSeq(call.said, LAMBDA t : t # << >>) = << >> THEN NoValidToCombine
    ELSE IF call.module = "why_it_moves_simple" \/ call.bart.kind \in {"unavailable", "raises"}
    THEN Generated(call)
    ELSE PostFilter(IF call.bart.kind = "list" THEN call.bart.text ELSE Generated(call))

AggregateCalls ==
    {[module |-> "why_it_moves_simple", symbol |-> s, said |-> l, label |-> b, order |-> o,
      bart |-> [kind |-> "unavailable", text |-> << >>]] :
        s \in SummarySymbols, l \in SummaryLists, b \in Labels \cup {"fallback"},
        o \in HashOrders}
    \cup [module : {"summarize"}, symbol : SummarySymbols, said : SummaryLists,
          label : Labels \cup {"fallback"}, order : HashOrders, bart : BartOutcomes]

SummarizeMany == Applied(summarize_articles(fn_in))

InitAggregate ==
    /\ Quiet
    /\ fpc = "ready"
    /\ fn_in \in AggregateCalls
    /\ fn_out = << >>

SpecAggregate == InitAggregate /\ [][SummarizeMany]_vars

\* ------------------------------------------ the orchestrator of src/why_it_moves.py

\* The articles get_news_articles (lines 85-99) loads: dicts with or without
\* the field full_article_text and a url
LegacyEntries ==
    {Entry(TRUE, TRUE, ArticleText, TRUE),
     Entry(TRUE, TRUE, NOT_FOUND, TRUE),
     Entry(TRUE, FALSE, << >>, TRUE),
     Entry(TRUE, FALSE, << >>, FALSE)}

\* A call of process_company_data: the loaded articles, what the extractor
\* returns, and whether Groq has a key and answers
LegacyCalls ==
    [loaded : SeqsUpTo(LegacyEntries, MaxArticles),
     extract : ExtractResults,
     groq : {"answers", "raises", "no key"}]

\* lines 120-121
LegacyExtracts(article) == article.has_url /\ ~article.has_text

\* The answer of Groq to summarize_articles
GroqExplanation == <<"Shares", " ", "rose", " ", "on", " ", "the", " ", "news", ".">>

\* process_company_data, lines 102-168: the summary returned, and the
\* number of articles summarize_article was called for
legacy_process_company_data(call) ==
    LET after == [k \in 1..Len(call.loaded) |->
                     IF LegacyExtracts(call.loaded[k])
                     THEN [call.loaded[k] EXCEPT !.has_text = TRUE, !.text = call.extract]
                     ELSE call.loaded[k]]
        with_text == IF call.extract = NOT_FOUND THEN << >>
                     ELSE SelectSeq(call.loaded, LegacyExtracts)
        texts == SelectSeq(after, LAMBDA article :
                               /\ article.has_text
                               /\ article.text # << >>
                               /\ article.text # NOT_FOUND)
    IN  IF call.loaded = << >> THEN [summary |-> NoNewsSummary, asked |-> 0]
        ELSE IF Len(with_text) = 0 THEN [summary |-> NoNewsSummary, asked |-> 0]
        ELSE IF texts = << >> THEN [summary |-> NoValidSummaries, asked |-> 0]
        ELSE CASE call.groq = "no key" -> [summary |-> ErrorSummary, asked |-> 1]
               [] call.groq = "raises" -> [summary |-> NoValidSummaries, asked |-> Len(texts)]
               [] OTHER -> [summary |-> GroqExplanation, asked |-> Len(texts)]

LegacyProcess == Applied(legacy_process_company_data(fn_in))

InitLegacy ==
    /\ Quiet
    /\ fpc = "ready"
    /\ fn_in \in LegacyCalls
    /\ fn_out = << >>

SpecLegacy == InitLegacy /\ [][LegacyProcess]_vars

\* ------------------------------------------------------------------ properties

Done == pc = "done" /\ result # << >>

\* text is a part of s that starts and ends where tokens do
Mentions(s, text) ==
    \E k \in 1..(Len(s) - Len(text) + 1) : SubSeq(s, k, k + Len(text) - 1) = text

NoArtifacts(summary) == "processed_articles" \notin DOMAIN summary

\* daily_change_percentage as a reader expects to see it in a text
PercentText ==
    (1500 :> <<"1", ".", "50", "%">>) @@ ((0 - 2346) :> <<"-", "2", ".", "35", "%">>)

NamesPercentage(summary) == Mentions(summary.summary, PercentText[args.pct])

\* C1: every call of why_it_moves returns a MoverSummary with a non-empty
\* summary, and no exception leaves the call, whatever the cache file holds
\* and whatever the extractor and the backend do.
C1_AlwaysSummarized ==
    /\ pc # "raised"
    /\ pc = "done" => result # << >> /\ result[1].summary # << >>

\* C2 as stated: with a cache file that is missing or holds no article, the
\* summary names the percentage and the result has no processed articles.
C2_NoArticlesNamesPercentage ==
    Done /\ get_news_articles(news) = << >>
        => NamesPercentage(result[1]) /\ NoArtifacts(result[1])

\* C2: with no cache file the summary names the percentage, formatted with two
\* decimals; with a cache file that holds no article the summary is the fixed
\* no-news text, which does not name it; in both cases the result has no
\* processed articles.
C2_NoCacheNamesPercentage ==
    Done /\ get_news_articles(news) = << >>
        => /\ NoArtifacts(result[1])
           /\ ~news.exists => NamesPercentage(result[1])
           /\ news.exists => result[1].summary = NoNewsSummary /\ ~NamesPercentage(result[1])

C2_Witness ==
    /\ Done
    /\ ~news.exists
    /\ args.pct < 0
    /\ Mentions(result[1].summary, <<"of", " ", "-", "2", ".", "35", "%">>)

\* C3: a run without a cache file calls neither the extractor nor the NLP
\* libraries nor the backend and builds no client; all it does is write the
\* summary file, which holds what the call returned.
C3_NoCacheNoWork ==
    pc = "done" /\ ~news.exists
        => /\ effects = {"write_summary"}
           /\ clients = 0
           /\ nlp_data = << >>
           /\ movers = result

C3_Witness ==
    /\ pc = "done"
    /\ ~news.exists
    /\ runs = MaxRuns
    /\ movers # << >>
    /\ movers[1].date_generated = runs

SameButDate(a, b) ==
    /\ DOMAIN a = DOMAIN b
    /\ \A f \in DOMAIN a \ {"date_generated"} : a[f] = b[f]

\* C4: in a stubbed environment a second call of why_it_moves with the same
\* arguments and the same cache file returns the summary text of the first;
\* the two results differ in date_generated only.
C4_Idempotent ==
    stubbed /\ Done /\ prev # << >>
        => /\ result[1].summary = prev[1].summary
           /\ SameButDate(result[1], prev[1])

C4_Witness ==
    /\ stubbed
    /\ Done
    /\ prev # << >>
    /\ ~NoArtifacts(result[1])
    /\ via = "backend"
    /\ result[1].date_generated # prev[1].date_generated

\* C5: once the backend has failed with an authentication error, no later
\* summarization call of the run builds a client or asks the backend.
C5_StickyDegradation ==
    [][auth_failed => /\ clients' <= clients
                      /\ attempt = 0 => attempt' = 0]_vars

\* C6: generate asks the backend at most max_retries times, sleeps
\* retry_delay * 2^k after the k-th failure (k = 0, 1, ..) when another
\* attempt follows, returns what the first answered attempt gives, and
\* returns the fallback text after the last failure.
C6_BoundedRetries ==
    /\ attempt <= max_retries
    /\ sleeps = [k \in 1..Len(sleeps) |-> retry_delay * 2^(k - 1)]
    /\ gpc = "generate" /\ ~use_fallback => Len(sleeps) = attempt /\ attempt < max_retries
    /\ gpc = "returned" /\ via = "backend"
          => /\ Len(sleeps) = attempt - 1
             /\ scores # << >>
             /\ response = <<CraftResponse(prompt, scores[1].label, scores[1].score, order)>>
    /\ gpc = "returned" /\ via = "fallback" /\ ~use_fallback
          => /\ attempt = max_retries
             /\ Len(sleeps) = max_retries - 1
             /\ response = <<GenerateFallback(prompt)>>

C6_Witness ==
    /\ gpc = "returned"
    /\ via = "backend"
    /\ attempt = max_retries
    /\ sleeps = <<2, 4>>

\* C7: without a working backend the text of a per-article call is not empty
\* and names the symbol and the direction of the call; the text of an
\* aggregate call is not empty and names the symbol of the call.
C7_FallbackNamesSymbolAndDirection ==
    gpc = "returned" /\ via = "fallback"
        => /\ response # << >> /\ response[1] # << >>
           /\ Mentions(response[1], req.symbol)
           /\ req.fn = "article" => Mentions(response[1], req.direction)

\* A line without the number a list item starts with
Unnumbered(line) ==
    IF Len(line) >= 3 /\ line[1] \in {ToString(d) : d \in 1..9} /\ line[2] = "."
    THEN SubSeq(line, 4, Len(line))
    ELSE line

\* The places the sentences of a line end at
SentenceEnds(line) ==
    {k \in 1..Len(line) :
        \/ k = Len(line)
        \/ line[k] \in {".", "!", "?"} /\ IsSpace(line[k + 1])}

\* The words of the sentence of a line that ends at e
WordsUpTo(line, e) ==
    LET before == {k \in SentenceEnds(line) : k < e}
        from == IF before = {} THEN 1 ELSE 1 + CHOOSE k \in before : \A m \in before : m <= k
    IN  {line[k] : k \in {n \in from..e : IsWord(line[n])}}

\* The sentences of a text: the line, the place in the line, the words
SentenceWords(text) ==
    LET ls == Lines(text)
    IN  UNION {Of(Unnumbered(ls[l]),
                  LAMBDA line : {<<l, e, WordsUpTo(line, e)>> : e \in SentenceEnds(line)})
               : l \in 1..Len(ls)}

NearDuplicates(a, b) ==
    LET small == Min({Cardinality(a), Cardinality(b)})
    IN  /\ small > 0
        /\ \/ a \subseteq b
           \/ b \subseteq a
           \/ 5 * Cardinality(a \cap b) > 4 * small

\* C8: no two sentences of an aggregate summary are near-duplicates (one's
\* words a subset of the other's, or more than 80% of the words of the
\* smaller in common).
C8_NoNearDuplicates ==
    gpc = "returned" /\ req.fn = "aggregate" /\ response # << >>
        => LET ws == Of(response[1], SentenceWords)
           IN  \A s \in ws, t \in ws : s # t => ~NearDuplicates(s[3], t[3])

\* No text came out of the call of extract_article_text
ExtractionFailed ==
    \/ article_url \notin FetchableUrls
    \/ responses = << >>
    \/ responses[Len(responses)].kind # "response"
    \/ responses[Len(responses)].status # 200
    \/ found \in {"nothing", "error"}
    \/ extracted \in {<< >>, <<<< >>>>}

\* C9: extract_article_text never raises and returns a string; whenever it
\* has no text of the page to return (no fetchable URL, no 200 response, a
\* page that cannot be read or holds no text), the string is the sentinel.
C9_FailuresGiveSentinel ==
    /\ xpc \in {"call", "retry", "returned"}
    /\ xpc = "returned" => Len(extracted) = 1 /\ (ExtractionFailed => extracted[1] = NOT_FOUND)

\* C10: no request follows a 404 response: the call returns the sentinel
\* right after it, so a first answer of 404 means one request in all.
C10_NotFoundNotRetried ==
    \A k \in 1..Len(responses) :
        responses[k].kind = "response" /\ responses[k].status = 404
            => /\ k = Len(responses)
               /\ xpc = "returned"
               /\ extracted = <<NOT_FOUND>>

C10_Witness ==
    /\ xpc = "returned"
    /\ Len(responses) = 1
    /\ responses[1].status = 404
    /\ extracted = <<NOT_FOUND>>

\* ------------------------------------------------------------ routing

RouteReturned == rpc = "returned"

\* The article carries a full text that is extracted content or the sentinel
HasFullText(article) ==
    /\ article.has_text
    /\ article.text # << >>
    /\ article.text # NoSummaryAvailable

\* C11: every article a fetcher produced, and so every article written to
\* the news cache of the symbol, carries a full text that is non-empty
\* extracted content or exactly the NOT_FOUND sentinel: the field is never
\* missing, empty or another placeholder.
C11_FullTextAlwaysPresent ==
    /\ \A k \in 1..Len(routed) : HasFullText(routed[k])
    /\ RouteReturned /\ routed # << >> =>
          \A k \in 1..Len(news.entries) : HasFullText(news.entries[k])

\* The chain of the US family and of the unknown exchange codes
Chain == <<"alpha_vantage", "marketbeat", "yahoo">>

\* The call of the fetcher returned zero articles
GaveNothing(fetched) ==
    IF fetched.fetcher = "yahoo" THEN fetched.output.articles = << >>
    ELSE fetched.output = << >>

\* The articles of the call as the route hands them on: fetch_us_news
\* rebuilds the articles of Yahoo with its own keys
Delivered(fetched) ==
    IF fetched.fetcher = "yahoo"
    THEN [k \in 1..Len(fetched.output.articles) |-> FromYahoo(fetched.output.articles[k])]
    ELSE fetched.output

FirstWithArticles ==
    CHOOSE k \in 1..Len(called) :
        /\ ~GaveNothing(called[k])
        /\ \A m \in 1..(k - 1) : GaveNothing(called[m])

C14_CacheAppendOnly ==
    [][\A k \in 1..Len(news.entries) :
          \E m \in 1..Len(news'.entries) : news'.entries[m] = news.entries[k]]_vars

\* The call in progress is for a Nordic or Baltic exchange and the lookup
\* of the issuer id of its symbol gives nothing
UnresolvedRegional ==
    /\ rpc \in {"regional", "save", "returned"}
    /\ Family(args.exchange) \in {"NORDIC", "BALTIC"}
    /\ get_gcf_issuer_id(args.symbol) = None

\* C15: for a Nordic or Baltic exchange whose issuer id cannot be resolved
\* the regional fetcher is not called at all, the route returns an empty
\* list, and no step of the call changes the news cache of the symbol.
C15_UnresolvedIssuerSkipped ==
    [][UnresolvedRegional' =>
          /\ called' = << >>
          /\ routed' = << >>
          /\ news' = news]_vars

\* A Nordic or Baltic call returned after an earlier call for the symbol
\* had written the cache
C15_Witness ==
    /\ UnresolvedRegional
    /\ RouteReturned
    /\ routes = 2
    /\ news.exists
    /\ called = << >>
    /\ routed = << >>

\* ------------------------------------------------------------ distillation

\* The article has a text that is neither empty nor the sentinel
UsableText(article) ==
    /\ article.is_dict
    /\ article.has_text
    /\ article.text # << >>
    /\ article.text # NOT_FOUND

Distilled == pc \in {"summarize", "aggregate"}

\* C12: no ProcessedArticle is made of an article whose text is the
\* sentinel or empty: distillation returns exactly one ProcessedArticle per
\* loaded article with usable text, in the order of the input, and nothing
\* for the others; the aggregate is built from summaries of these alone.
C12_OnePerUsableArticle ==
    Distilled =>
        LET usable == SelectSeq(news_articles, UsableText)
        IN  /\ Len(processed_articles) = Len(usable)
            /\ \A k \in 1..Len(usable) :
                  /\ processed_articles[k].title = usable[k].title
                  /\ processed_articles[k].condensed_text =
                        CondensedText(usable[k].title, extract_key_sentences(usable[k].text))
            /\ Len(processed_data) <= Len(usable)
            /\ \A k \in 1..Len(processed_data) :
                  processed_data[k].title = usable[k].title
            /\ Len(summaries) <= Len(processed_data)
            /\ pc = "aggregate" =>
                  /\ req.article_summaries = summaries
                  /\ Len(summaries) <= Len(usable)

\* Two articles were loaded, the first with the sentinel and the second
\* with a text: one ProcessedArticle, of the second, and the aggregate is
\* asked for with the one summary of it
C12_Witness ==
    /\ pc = "aggregate"
    /\ Len(news_articles) = 2
    /\ news_articles[1].text = NOT_FOUND /\ news_articles[1].title = ArticleTitle
    /\ news_articles[2].text = SummaryText /\ news_articles[2].title = SecondTitle
    /\ Len(processed_articles) = 1
    /\ processed_articles[1].title = SecondTitle
    /\ Len(req.article_summaries) = 1

\* ------------------------------------------------------------ persistence

TrailOf(summary) ==
    IF "processed_articles" \in DOMAIN summary THEN <<summary.processed_articles>> ELSE << >>

\* C17: after every run of why_it_moves for a symbol, on every path of the
\* run, the list in {symbol}_nlp_data.json equals the processed-article
\* trail of the {symbol}_summary.json that the same run wrote.
C17_NlpFileIsTrailOfSummary ==
    Done => nlp_data = TrailOf(movers[1])

\* ------------------------------------------------------------ concurrent runs

TwoThreads == Len(cruns) = 2

DifferentSymbols == TwoThreads /\ cruns[1].symbol # cruns[2].symbol

SameSymbol == TwoThreads /\ cruns[1].symbol = cruns[2].symbol

\* The files of a symbol
OwnPaths(symbol) == {NewsPath(symbol), NlpPath(symbol), SummaryPath(symbol)}

\* What the run of a thread has written when it is done
WroteAlone(run) ==
    /\ cfiles[SummaryPath(run.symbol)] = <<run.summary>>
    /\ cfiles[NlpPath(run.symbol)] = IF run.saves_nlp THEN <<run.processed_data>> ELSE << >>

\* The summary and the list of the run are among those a call for the cache
\* of its symbol can make
FromOwnCache(run) ==
    \E outcome \in Outcomes(run, get_news_articles(cfiles[NewsPath(run.symbol)])) :
        /\ run.processed_data = outcome.processed_data
        /\ run.saves_nlp = outcome.saves_nlp
        /\ \E now \in 0..1 : run.summary = outcome.res @@ [daily_change_percentage |-> run.pct,
                                                             date_generated |-> now]

\* C18: runs of why_it_moves for two different symbols do not contend: in
\* every interleaving each run reads only the news cache of its own symbol
\* and writes only the summary file and the list file of its own symbol,
\* and when a run is done the files of its symbol hold what the run alone
\* writes.
C18_DifferentSymbolsApart ==
    DifferentSymbols =>
        /\ \A k \in 1..Len(clog) :
              /\ clog[k].path \in OwnPaths(cruns[clog[k].thread].symbol)
              /\ clog[k].op = "write" <=> clog[k].path # NewsPath(cruns[clog[k].thread].symbol)
        /\ \A th \in Threads :
              /\ cruns[th].at \in {"loaded", "save_nlp", "returned", "done"}
                 /\ cfiles[NewsPath(cruns[th].symbol)].exists =>
                    cruns[th].news_articles =
                        get_news_articles(cfiles[NewsPath(cruns[th].symbol)])
              /\ cruns[th].at = "done" =>
                    /\ WroteAlone(cruns[th])
                    /\ cfiles[NewsPath(cruns[th].symbol)].exists => FromOwnCache(cruns[th])

\* Both runs are done, each wrote a list and a summary, and the thread
\* that started last finished first
C18_Witness ==
    /\ DifferentSymbols
    /\ \A th \in Threads : cruns[th].at = "done" /\ cruns[th].saves_nlp
    /\ clog[1].thread = 1
    /\ clog[Len(clog)].thread = 1
    /\ \E k \in 1..Len(clog) : clog[k].thread = 2
    /\ cfiles[NlpPath(cruns[1].symbol)] # cfiles[NlpPath(cruns[2].symbol)]

\* The last write to the file in the log; 0 when there is none
LastWrite(path) ==
    LET writes == {k \in 1..Len(clog) : clog[k].op = "write" /\ clog[k].path = path}
    IN  IF writes = {} THEN 0 ELSE CHOOSE k \in writes : \A m \in writes : m <= k

\* C19: two runs of why_it_moves for the same symbol are not serialised:
\* each file holds what the last write to it stored, whichever run made
\* it, so the list file can come from one run and the summary file from
\* the other, a pair that no single run wrote.
C19_LastWriterWins ==
    SameSymbol =>
        \A path \in {NlpPath(cruns[1].symbol), SummaryPath(cruns[1].symbol)} :
            cfiles[path] = IF LastWrite(path) = 0 THEN << >> ELSE clog[LastWrite(path)].data

\* Both runs for the symbol are done; the list file comes from one run and
\* the summary file from the other, and the pair is that of neither run
C19_Witness ==
    /\ SameSymbol
    /\ \A th \in Threads : cruns[th].at = "done" /\ cruns[th].saves_nlp
    /\ clog[LastWrite(NlpPath(cruns[1].symbol))].thread = 2
    /\ clog[LastWrite(SummaryPath(cruns[1].symbol))].thread = 1
    /\ cfiles[NlpPath(cruns[1].symbol)] # TrailOf(cfiles[SummaryPath(cruns[1].symbol)][1])
    /\ \A th \in Threads :
          ~(/\ cfiles[NlpPath(cruns[th].symbol)] = <<cruns[th].processed_data>>
            /\ cfiles[SummaryPath(cruns[th].symbol)] = <<cruns[th].summary>>)

\* ------------------------------------------------------------ batch

BatchFinished == bpc = "finished"

\* Each listed file was attempted once, in the order of the listing
AttemptedEachOnce ==
    /\ Len(attempted) = Len(news_files)
    /\ \A k \in 1..Len(news_files) : Stem(attempted[k].symbol) = news_files[k].stem

\* C20: process_all_stocks attempts each symbol that has a news cache file
\* exactly once and terminates: an exception raised while one symbol is
\* processed is caught and the later symbols are still processed.
C20_BatchAttemptsAllAndTerminates ==
    /\ [](BatchFinished => AttemptedEachOnce)
    /\ [](Len(attempted) <= Len(news_files))
    /\ <>BatchFinished

\* The batch is over: the call for the first file raised, and the call for
\* the second file was made afterwards and returned
C20_Witness ==
    /\ BatchFinished
    /\ Len(news_files) = 2
    /\ Len(attempted) = 2
    /\ attempted[1].outcome = "raised"
    /\ attempted[2].outcome = "returned"
    /\ attempted[1].symbol # attempted[2].symbol

\* ------------------------------------------------------------ classification

\* C21: the classification depends on the sign of the change of the day
\* alone: "gainer" exactly when the change is greater than 0 and "loser"
\* otherwise, so that a change of exactly 0 is a "loser".
C21_GainerIffPositive ==
    fpc = "applied" /\ "pct" \in DOMAIN fn_in =>
        /\ fn_out \in {"gainer", "loser"}
        /\ fn_out = "gainer" <=> fn_in.pct > 0

\* classify_company was called with 0 and said "loser"
C21_Witness ==
    /\ fpc = "applied"
    /\ fn_in.module = "why_it_moves_simple"
    /\ fn_in.pct = 0
    /\ fn_out = "loser"

\* ------------------------------------------------------------ retries

\* A connection error, a 5xx response or a 429 response
Transient(o) == o.kind # "response" \/ o.status >= 500 \/ o.status = 429

\* C25: the GET of the extractor is retried, a bounded number of times, on
\* connection errors, on every 5xx response and on every 429 response: such
\* an answer ends the call only when the retries are used up, and the call
\* then returns the sentinel.
C25_RetriesEvery5xxAnd429 ==
    /\ Len(responses) <= retries + 1
    /\ \A k \in 1..Len(responses) :
          Transient(responses[k]) /\ k = Len(responses) /\ xpc = "returned"
              => k = retries + 1 /\ extracted = <<NOT_FOUND>>

\* ------------------------------------------------------------ fetchers

FetcherReturned == fpc = "applied" /\ "feed" \in DOMAIN fn_in

InOutput(candidate) ==
    \E k \in 1..Len(fn_out.articles) : fn_out.articles[k].id = candidate.id

\* Every candidate of the feed has a date that parses and is whole
CleanFeed ==
    \A k \in 1..Len(fn_in.feed) : fn_in.feed[k].date.parsable /\ ~fn_in.feed[k].bad

\* C22: every fetcher applies the window of 30 days at the time of the
\* fetch: an article dated 31 days ago is in the output of no fetcher, and
\* one dated 29 days ago is kept, as far as the cap of the output allows.
C22_RecencyWindowEverywhere ==
    FetcherReturned =>
        \A k \in 1..Len(fn_in.feed) :
            /\ fn_in.feed[k].date.parsable /\ fn_in.feed[k].date.age = 31
                  => ~InOutput(fn_in.feed[k])
            /\ CleanFeed /\ fn_in.feed[k].date.age = 29 /\ k <= 3
                  => InOutput(fn_in.feed[k])

\* C23: in every fetcher a candidate whose date cannot be parsed is left
\* out of the output, and the fetch does not crash.
C23_UnparsableDateLeftOut ==
    FetcherReturned =>
        /\ ~fn_out.raised
        /\ \A k \in 1..Len(fn_in.feed) :
              ~fn_in.feed[k].date.parsable => ~InOutput(fn_in.feed[k])

WithoutBad(feed) == LET Whole(candidate) == ~candidate.bad IN SelectSeq(feed, Whole)

\* C24: in every fetcher an exception raised for one candidate affects that
\* candidate alone: the fetcher goes on, and returns what it returns for
\* the feed without the bad candidates.
C24_BadArticleAffectsOnlyItself ==
    FetcherReturned =>
        /\ ~fn_out.raised
        /\ fn_out = FetcherOutput(fn_in.fetcher, WithoutBad(fn_in.feed))

\* ------------------------------------------------------------ loading

\* C26: of a cache of n articles the orchestrator loads min(n, 5), and when
\* n > 5 the loaded ones are the 5 of the latest publication dates,
\* whatever the order of the file: no article left behind is later than a
\* loaded one.
C26_LoadsFiveMostRecent ==
    fpc = "applied" /\ "cache" \in DOMAIN fn_in =>
        /\ Len(fn_out) = Min({Len(fn_in.cache), 5})
        /\ \A k \in 1..Len(fn_in.cache) :
              (\A l \in 1..Len(fn_out) : fn_out[l].id # k)
                  => \A l \in 1..Len(fn_out) :
                        fn_out[l].published >= fn_in.cache[k].published

\* ------------------------------------------------------------ short-circuit

\* After the loop of extraction the article carries a text other than the
\* sentinel
CarriesText(article) == article.has_text /\ article.text # NOT_FOUND

SomeArticleCarriesText ==
    \E k \in 1..Len(news_articles) : CarriesText(news_articles[k])

FillerPhrases ==
    {<<"several", " ", "factors">>, <<"combination", " ", "of", " ", "factors">>}

Aggregated == fpc = "applied" /\ "said" \in DOMAIN fn_in

\* C28: the aggregate summary holds neither 'several factors' nor
\* 'combination of factors', in any case of letters, whichever path made
\* it: the backend or the fallback template, with the BART pass or without.
C28_NoFillerPhrases ==
    Aggregated => \A phrase \in FillerPhrases : ~PhraseIn(phrase, LowerText(fn_out))

C28_Witness ==
    /\ Aggregated
    /\ fn_in.module = "summarize"
    /\ fn_in.bart.kind = "list"
    /\ PhraseIn(<<"Combination", " ", "of", " ", "factors">>, fn_in.bart.text)
    /\ fn_out = <<"Profit", " ", "rose">>

\* ------------------------------------------------------------ frame of a run

\* C29: why_it_moves never writes the news cache: no step of a run changes
\* {symbol}_news.json, the steps in which the extractor gives a loaded
\* article its text in memory included.
C29_NewsCacheUntouched ==
    [][news' = news]_vars

\* A run is over in which an article got its text in memory and the entry
\* of the file has none
C29_Witness ==
    /\ Done
    /\ "extract" \in effects
    /\ \E k \in 1..Len(news_articles) :
          /\ news_articles[k].has_text
          /\ news_articles[k].text = ArticleText
          /\ ~news.entries[k].has_text

\* ------------------------------------------------------------ legacy orchestrator

\* The loaded article carries a text, stored in the cache or extracted in
\* the call, that is neither empty nor the sentinel
LegacyUsable(article) ==
    \/ article.has_text /\ article.text # << >> /\ article.text # NOT_FOUND
    \/ LegacyExtracts(article) /\ fn_in.extract # << >> /\ fn_in.extract # NOT_FOUND

\* C30: in src/why_it_moves.py, whenever a loaded article carries usable
\* text, stored in the cache or extracted in the run, process_company_data
\* asks for summaries of articles and does not return the no-news summary.
C30_LegacySummarizesUsableText ==
    fpc = "applied" /\ "groq" \in DOMAIN fn_in =>
        ((\E k \in 1..Len(fn_in.loaded) : LegacyUsable(fn_in.loaded[k]))
            => fn_out.asked > 0 /\ fn_out.summary # NoNewsSummary)
====
